---- MODULE Spec2Model ----
(***************************************************************************)
(* Wheel-spin allocation engine (rahulbrandimpetus/wheelspin-backend).     *)
(*                                                                         *)
(* The repository holds three variants of the same server:                 *)
(*   "metafield"  - src/index.js: hard-coded PRIZES, the remaining counts  *)
(*                  and the distribution counters are two shop metafields, *)
(*                  each a JSON object read and written whole;             *)
(*   "metaobject" - src/unnamed/part_000 lines 1-562: the catalog and its  *)
(*                  counters are one metaobject per prize, each written    *)
(*                  on its own.                                            *)
(* A behaviour of the model runs one variant (impl), chosen in Init.       *)
(*                                                                         *)
(* Every await of the handlers is a round trip to the platform; the model  *)
(* has one action per round trip (the platform performs the read or the    *)
(* write, the handler's synchronous continuation up to the next request is *)
(* part of the step) and one action for the draw, which runs in the        *)
(* handler after the catalog snapshot has come back.  Handlers interleave  *)
(* at these points, as the event loop lets them.                           *)
(*                                                                         *)
(* Optional values (JS null / missing field) are sequences of length <= 1. *)
(* Weights are fixed-point numbers, Unit = 1.0.                            *)
(***************************************************************************)
EXTENDS Integers, Sequences, FiniteSets, TLC

VARIABLES
    impl,          \* which variant of the server runs
    customers,     \* platform: phone -> customer record (tags, note) or None
    counts,        \* platform: metafield wheel_spin.prize_counts (metafield variant)
    distribution,  \* platform: metafield wheel_spin.prize_distribution
    metaobjects,   \* platform: the wheel_prize metaobjects, in listing order
    op,            \* per handler slot: which endpoint it serves
    pc,            \* per handler slot: the await it is suspended at
    phone,         \* per handler slot: req.body.phone
    adminKey,      \* per handler slot: the adminKey of an admin request
    customer,      \* per handler slot: the customer object the handler holds
    snap,          \* per handler slot: the catalog snapshot the handler holds
    chosen,        \* per handler slot: the prize drawn and how it was drawn
    prizeNumber,   \* per handler slot: the sequence number returned by the counter write
    ri,            \* per handler slot: reset's position in its loop over the prizes
    resp,          \* per handler slot: the HTTP response sent
    started,       \* number of requests accepted so far (bounds the run)
    applied,       \* history: per prize, counter writes that recorded an award of it
    awarded,       \* history: per prize, spins answered with it after a weighted draw
    wins,          \* history: per phone, spins answered with a freshly drawn prize
    resetRan,      \* history: a reset has written to the inventory
    sinceReset,    \* history: per prize, counter writes that recorded an award of it
                   \*          since a reset last wrote its remaining
    unmarked,      \* history: per phone, spins whose counters write succeeded and
                   \*          whose marker write (the tags PUT) then failed
    resets         \* history: number of resets answered with success

storeVars == <<customers, counts, distribution, metaobjects>>
reqVars   == <<op, pc, phone, adminKey, customer, snap, chosen, prizeNumber, ri, resp>>
histVars  == <<applied, awarded, wins, resetRan, sinceReset, unmarked, resets>>
vars      == <<impl, storeVars, reqVars, started, histVars>>

----------------------------------------------------------------------------
(* Bounds and small helpers *)

MaxRequests == 2
Slots  == {"h1", "h2"}
Phones == {"p1", "p2"}

None    == <<>>
Some(x) == <<x>>
IsNull(o) == o = <<>>
Val(o)  == o[1]

\* req.body.phone as it arrives: missing, empty, blank, or a phone number
\* with or without blanks around it
RawPhones == {None, Some(""), Some(" "), Some("p1"), Some(" p2 ")}

\* (req.body.phone || '').trim()
Trim(raw) ==
    IF IsNull(raw) THEN ""
    ELSE CASE Val(raw) = " "    -> ""
           [] Val(raw) = " p2 " -> "p2"
           [] OTHER             -> Val(raw)

\* process.env.ADMIN_RESET_KEY, and the adminKey values a request carries
ADMIN_RESET_KEY == Some("secret")
AdminKeys == {Some("secret"), Some("wrong"), Some(""), None}

\* the inventory lives in the two shop metafields (the metafield server, and
\* the server that also mirrors it to metaobjects)
UsesMetafields == impl \in {"metafield", "mirror"}

Max(a, b) == IF a >= b THEN a ELSE b
Min(a, b) == IF a <= b THEN a ELSE b

Unit == 100 * 100       \* fixed-point 1.0
Today == "2024-10-01"   \* new Date().toISOString().split('T')[0]

RECURSIVE SumSeq(_)
SumSeq(s) == IF s = <<>> THEN 0 ELSE s[1] + SumSeq(Tail(s))

\* [...new Set(tags)]: first occurrences, in order
RECURSIVE Unique(_)
Unique(s) ==
    IF s = <<>> THEN <<>>
    ELSE LET init == Unique(SubSeq(s, 1, Len(s) - 1))
             last == s[Len(s)]
         IN IF \E i \in 1..Len(init) : init[i] = last THEN init ELSE Append(init, last)

\* Array.prototype.find on the positions of a sequence: the element at the
\* first position in hits, or None
FirstAt(s, hits) ==
    IF hits = {} THEN None
    ELSE Some(s[CHOOSE i \in hits : \A j \in hits : i <= j])

\* PRIZES.find(p => p.id === id)
FindPrize(prizes, id) == FirstAt(prizes, {i \in 1..Len(prizes) : prizes[i].id = id})

----------------------------------------------------------------------------
(* The catalog *)

PrizeIds == {"kivo_easy_lite", "1gm_gold_coin", "better_luck"}

\* src/index.js PRIZES, cut to three entries (two capped, caps cut to 1, and
\* the uncapped fallback); prob in Unit.
PRIZES ==
    << [id |-> "kivo_easy_lite", label |-> "Kivo Easy Lite",        prob |-> 10,  max |-> Some(1)],
       [id |-> "1gm_gold_coin",  label |-> "1gm Gold Coin",         prob |-> 500, max |-> Some(1)],
       [id |-> "better_luck",    label |-> "Better Luck Next Time", prob |-> 100, max |-> None] >>

PrizeById(id) == Val(FindPrize(PRIZES, id))

\* ensureShopPrizeCounts / reset: initialCounts[p.id] = p.max === null ? null : p.max
InitialCounts == [id \in PrizeIds |-> PrizeById(id).max]

\* ensurePrizeDistribution: initialDistribution[p.id] = 0
InitialDistribution == [id \in PrizeIds |-> 0]

\* A field's text is a number, or NaN: a text that parseFloat and parseInt
\* read as NaN.  A missing field and the empty text are both None.
NaN == -1000
isNaN(str) == Val(str) = NaN

\* A metaobject as the platform stores it: every field an optional value.
\* probability is a percentage; max_count / remaining_count use -1 for unlimited.
Metaobject(gid, id, label, pct, max, rem, dist) ==
    [id |-> gid, prize_id |-> id, prize_label |-> label, probability |-> pct,
     max_count |-> max, remaining_count |-> rem, total_distributed |-> dist]

\* The catalogs the metaobject variant is run on: a fresh campaign with one
\* capped prize and the uncapped fallback, and a campaign of capped prizes
\* only, under way, whose first prize has been given out already.
CatalogWithFallback ==
    << Metaobject(1, Some("kivo_easy_lite"), Some("Kivo Easy Lite"), Some(50), Some(1), Some(1), Some(0)),
       Metaobject(2, Some("better_luck"), Some("Better Luck Next Time"), Some(50), Some(-1), None, Some(0)) >>

CatalogAllCapped ==
    << Metaobject(1, Some("1gm_gold_coin"), Some("1gm Gold Coin"), Some(50), Some(1), Some(0), Some(1)),
       Metaobject(2, Some("kivo_easy_lite"), Some("Kivo Easy Lite"), Some(50), Some(1), Some(1), Some(0)) >>

\* a campaign of capped prizes only, all given out, in which the prize with the
\* id 'better_luck' is capped too and is not the last entry
CatalogCappedFallback ==
    << Metaobject(1, Some("better_luck"), Some("Better Luck Next Time"), Some(50), Some(1), Some(0), Some(1)),
       Metaobject(2, Some("kivo_easy_lite"), Some("Kivo Easy Lite"), Some(50), Some(1), Some(0), Some(1)) >>

Catalogs == {CatalogWithFallback, CatalogAllCapped, CatalogCappedFallback}

\* Catalogs an operator may have left malformed.  The texts a field may hold:
\* missing, non-numeric, negative, and numbers in and out of range.
ProbTexts  == {None, Some(NaN), Some(-5), Some(0), Some(50), Some(150)}
MaxTexts   == {None, Some(NaN), Some(-1), Some(-3), Some(0), Some(2)}
CountTexts == {None, Some(NaN), Some(-1), Some(-3), Some(0), Some(1), Some(3)}
DistTexts  == {None, Some(NaN), Some(1)}

\* one entry with an id and a label, whose other fields hold any of the texts
FieldCatalogs ==
    { << Metaobject(1, Some("kivo_easy_lite"), Some("Kivo Easy Lite"), pct, max, rem, dist) >> :
        pct \in ProbTexts, max \in MaxTexts, rem \in CountTexts, dist \in DistTexts }

\* an entry of each kind: without prize_id, without prize_label, and two
\* entries that have both
EntryKinds == {"noId", "noLabel", "kivo_easy_lite", "1gm_gold_coin"}
EntryOf(gid, kind) ==
    CASE kind = "noId"    -> Metaobject(gid, None, Some("Kivo Easy Lite"), Some(50), Some(1), Some(1), Some(0))
      [] kind = "noLabel" -> Metaobject(gid, Some("better_luck"), None, Some(50), Some(-1), None, Some(0))
      [] OTHER            -> Metaobject(gid, Some(kind), Some(PrizeById(kind).label), Some(50), Some(1), Some(1), Some(0))

\* every listing of up to MaxEntries entries of these kinds, the empty one included
MaxEntries == 3
EntryCatalogs ==
    UNION { { [i \in 1..n |-> EntryOf(i, kinds[i])] : kinds \in [1..n -> EntryKinds] } :
            n \in 0..MaxEntries }

----------------------------------------------------------------------------
(* loadPrizesFromMetaobjects (metaobject variant) *)

\* parseFloat(probStr) as a percentage, converted to a decimal and capped at 1;
\* a missing, non-numeric or negative value takes the default 1.0
ParseProb(probStr) ==
    IF IsNull(probStr) \/ isNaN(probStr) \/ Val(probStr) < 0 THEN Unit
    ELSE Min(Val(probStr) * (Unit \div 100), Unit)

\* max_count / remaining_count: empty, "-1", non-numeric and negative texts
\* give null
ParseCount(str) ==
    IF ~IsNull(str) /\ Val(str) # -1 /\ ~isNaN(str) /\ Val(str) >= 0
    THEN Some(Val(str)) ELSE None

\* mutant of ParseRemaining: a remaining above max_count is kept
ParseRemainingUncapped(max, remainingStr) ==
    LET parsed    == ParseCount(remainingStr)
        remaining == IF IsNull(parsed) THEN max ELSE parsed
    IN IF IsNull(max) THEN None ELSE remaining

ParseRemaining(max, remainingStr) ==
    LET parsed    == ParseCount(remainingStr)
        remaining == IF IsNull(parsed) THEN max ELSE parsed
        capped    == IF ~IsNull(max) /\ ~IsNull(remaining) /\ Val(remaining) > Val(max)
                     THEN max ELSE remaining
    IN IF IsNull(max) THEN None ELSE capped

\* parseInt(distributedStr) || 0
ParseDistributed(str) == IF IsNull(str) \/ isNaN(str) THEN 0 ELSE Val(str)

HasIdAndLabel(mo) == ~IsNull(mo.prize_id) /\ ~IsNull(mo.prize_label)

ParsePrize(mo) ==
    LET max == ParseCount(mo.max_count)
    IN [id |-> Val(mo.prize_id), label |-> Val(mo.prize_label),
        prob |-> ParseProb(mo.probability), max |-> max,
        remaining |-> ParseRemaining(max, mo.remaining_count),
        totalDistributed |-> ParseDistributed(mo.total_distributed),
        metaobjectId |-> mo.id]

\* the prizes array: entries without prize_id or prize_label are skipped
loadPrizesFromMetaobjects(mos) ==
    LET valid == SelectSeq(mos, HasIdAndLabel)
    IN [i \in 1..Len(valid) |-> ParsePrize(valid[i])]

----------------------------------------------------------------------------
(* Customer tags: a tag is [k |-> key, v |-> text, n |-> number] *)

Tag(k, v, n) == [k |-> k, v |-> v, n |-> n]

JsNumber(n) == [type |-> "number", n |-> n]
JsString(n) == [type |-> "string", n |-> n]

\* tags.find(t => t.startsWith(key))
FindTag(tags, k) == FirstAt(tags, {i \in 1..Len(tags) : tags[i].k = k})

hasPlayedWheel(c) ==
    IF UsesMetafields
    THEN \E i \in 1..Len(c.tags) : c.tags[i].k \in {"wheel_played", "wheel_prize"}
    ELSE \E i \in 1..Len(c.tags) : c.tags[i].k = "Spin Prize"

\* the payload of a replay; None when there is no "Spin Prize:" tag
getPrizeFromTags(c) ==
    LET spinPrizeTag   == FindTag(c.tags, "Spin Prize")
        spinDateTag    == FindTag(c.tags, "Spin Date")
        prizeNumberTag == FindTag(c.tags, "Prize Number")
    IN IF IsNull(spinPrizeTag) THEN None
       ELSE Some([id     |-> None,
                  label  |-> Val(spinPrizeTag).v,
                  date   |-> IF IsNull(spinDateTag) THEN None ELSE Some(Val(spinDateTag).v),
                  number |-> IF UsesMetafields /\ ~IsNull(prizeNumberTag)
                             THEN Some(JsString(Val(prizeNumberTag).n)) ELSE None])

AlreadyPlayedPrize ==
    [id |-> None, label |-> "Already Played", date |-> None, number |-> None]

\* the tags addPrizeToCustomer sends: the tags of the customer object it was
\* given, then the new ones, without duplicates
MarkerTags(c, prize, number) ==
    LET added == IF UsesMetafields
                 THEN << Tag("Spin Prize", prize.label, 0), Tag("Spin Date", Today, 0),
                         Tag("Prize Number", "", number), Tag("wheel_prize", prize.id, 0),
                         Tag("wheel_played", "", 0) >>
                 ELSE << Tag("Spin Prize", prize.label, 0), Tag("Spin Date", Today, 0) >>
    IN Unique(c.tags \o added)

MarkerNote(prize, number) ==
    [text |-> "Wheel Spin Prize", label |-> prize.label,
     number |-> IF UsesMetafields THEN Some(number) ELSE None]

NewCustomer == [tags |-> <<>>, note |-> [text |-> "Created for wheel spin", label |-> "", number |-> None]]

----------------------------------------------------------------------------
(* The weighted draw *)

\* remaining of prize p as the handler's snapshot has it
SnapRemaining(sn, p) ==
    IF UsesMetafields THEN Val(sn.counts)[p.id] ELSE p.remaining

Catalog(sn) == IF UsesMetafields THEN PRIZES ELSE sn.prizes

\* mutant of IsAvailable: only a capped prize with stock counts as available
IsAvailableCappedOnly(rem) == ~IsNull(rem) /\ Val(rem) > 0

\* p.remaining === null || p.remaining > 0
IsAvailable(rem) == IsNull(rem) \/ Val(rem) > 0

\* mutant of Available: the whole catalog, depleted prizes included
AvailableUnfiltered(sn) == Catalog(sn)

\* PRIZES.filter(p => p.remaining === null || p.remaining > 0)
Available(sn) == SelectSeq(Catalog(sn), LAMBDA p : IsAvailable(SnapRemaining(sn, p)))

Cumulative(av, i) == SumSeq([j \in 1..i |-> av[j].prob])

TotalProb(av) == Cumulative(av, Len(av))

\* Math.random() * totalProb lies in [0, totalProb); the draw is tried at 0 and
\* around every cumulative weight
RandomPoints(av) ==
    LET cand == {0} \cup UNION {{Cumulative(av, i) - 1, Cumulative(av, i), Cumulative(av, i) + 1} :
                               i \in 1..Len(av)}
    IN {r \in cand : r = 0 \/ (0 <= r /\ r < TotalProb(av))}

\* mutant of WeightedPick: the walk stops at the first cumulative weight above r
WeightedPickStrict(av, r) ==
    IF \E i \in 1..Len(av) : r < Cumulative(av, i)
    THEN av[CHOOSE i \in 1..Len(av) :
                /\ r < Cumulative(av, i)
                /\ \A j \in 1..(i - 1) : ~(r < Cumulative(av, j))]
    ELSE av[Len(av)]

\* first entry whose cumulative weight reaches r, the last entry otherwise
WeightedPick(av, r) ==
    IF \E i \in 1..Len(av) : r <= Cumulative(av, i)
    THEN av[CHOOSE i \in 1..Len(av) :
                /\ r <= Cumulative(av, i)
                /\ \A j \in 1..(i - 1) : ~(r <= Cumulative(av, j))]
    ELSE av[Len(av)]

\* the prize given when nothing is available
Fallback(sn) ==
    LET bl == FindPrize(Catalog(sn), "better_luck")
    IN IF UsesMetafields THEN bl
       ELSE IF ~IsNull(bl) THEN bl ELSE Some(Catalog(sn)[Len(Catalog(sn))])

\* mutant of NewRemaining: the decrement without its floor
NewRemainingUnclamped(rem) == rem - 1

\* Math.max(0, remaining - 1)
NewRemaining(rem) == Max(0, rem - 1)

----------------------------------------------------------------------------
(* The platform's inventory, as either variant stores it *)

StoredMetaobject(id) ==
    FirstAt(metaobjects, {i \in 1..Len(metaobjects) : metaobjects[i].prize_id = Some(id)})

\* the prizes the running variant knows
KnownPrizes ==
    IF UsesMetafields THEN PrizeIds
    ELSE {id \in PrizeIds : ~IsNull(StoredMetaobject(id))}

\* cap of a prize (null: uncapped)
Cap(id) ==
    IF UsesMetafields THEN PrizeById(id).max
    ELSE ParseCount(Val(StoredMetaobject(id)).max_count)

\* stored remaining of a prize, as a load reads it back (null: unbounded)
StoredRemaining(id) ==
    IF UsesMetafields THEN counts[id]
    ELSE ParseRemaining(Cap(id), Val(StoredMetaobject(id)).remaining_count)

\* stored totalDistributed of a prize
TotalDistributed(id) ==
    IF UsesMetafields THEN distribution[id]
    ELSE ParseDistributed(Val(StoredMetaobject(id)).total_distributed)

\* updatePrizeMetaobject: the platform sets the fields named in updates on one
\* metaobject and leaves its other fields alone
updatePrizeMetaobject(mos, metaobjectId, updates) ==
    [i \in DOMAIN mos |->
        IF mos[i].id = metaobjectId
        THEN [key \in DOMAIN mos[i] |->
                 IF key \in DOMAIN updates THEN updates[key] ELSE mos[i][key]]
        ELSE mos[i]]

\* mutant of AfterSpinUpdates: total_distributed goes up for capped prizes only
AfterSpinUpdatesCappedOnly(prize) ==
    IF IsNull(prize.remaining)
    THEN [total_distributed |-> Some(prize.totalDistributed)]
    ELSE [remaining_count   |-> Some(NewRemaining(Val(prize.remaining))),
          total_distributed |-> Some(prize.totalDistributed + 1)]

\* the fields updatePrizeAfterSpin sends for the prize of its snapshot
\* (is_available and last_updated, which no handler reads, are left out)
AfterSpinUpdates(prize) ==
    IF IsNull(prize.remaining)
    THEN [total_distributed |-> Some(prize.totalDistributed + 1)]
    ELSE [remaining_count   |-> Some(NewRemaining(Val(prize.remaining))),
          total_distributed |-> Some(prize.totalDistributed + 1)]

\* mutant of ResetUpdates: a prize that is full is emptied instead
ResetUpdatesToggle(prize) ==
    [remaining_count |-> Some(IF IsNull(prize.max) THEN -1
                              ELSE IF prize.remaining = prize.max THEN 0
                              ELSE Val(prize.max))]

\* the fields reset-prizes sends for one prize: max_count, or -1 for unlimited
ResetUpdates(prize) ==
    [remaining_count |-> Some(IF IsNull(prize.max) THEN -1 ELSE Val(prize.max))]

\* mutant of ResetCounts: every capped prize is set to 0
ResetCountsEmpty == [id \in PrizeIds |-> IF IsNull(PrizeById(id).max) THEN None ELSE Some(0)]

\* reset-prizes of the metafield variant: resetCounts[p.id] = p.max
ResetCounts == [id \in PrizeIds |-> PrizeById(id).max]

----------------------------------------------------------------------------
(* Responses *)

\* A response: the HTTP status and the fields of the JSON body the handlers
\* send (found, hasPlayed and stats are absent, None, where a handler sends none)
PrizeResponse(id, label, number) ==
    [status |-> 200, alreadyPlayed |-> FALSE, success |-> FALSE, error |-> "",
     prize |-> Some([id |-> id, label |-> label, date |-> None,
                     number |-> Some(JsNumber(number))]),
     found |-> None, hasPlayed |-> None, stats |-> None]

AlreadyPlayedResponse(prizeInfo) ==
    [status |-> 200, alreadyPlayed |-> TRUE, success |-> FALSE, error |-> "",
     prize |-> Some(IF IsNull(prizeInfo) THEN AlreadyPlayedPrize ELSE Val(prizeInfo)),
     found |-> None, hasPlayed |-> None, stats |-> None]

ResetResponse ==
    [status |-> 200, alreadyPlayed |-> FALSE, success |-> TRUE, error |-> "", prize |-> None,
     found |-> None, hasPlayed |-> None, stats |-> None]

ServerError ==
    [status |-> 500, alreadyPlayed |-> FALSE, success |-> FALSE, error |-> "server error",
     prize |-> None, found |-> None, hasPlayed |-> None, stats |-> None]

\* res.status(400).json({ error: 'phone required' })
ValidationError ==
    [status |-> 400, alreadyPlayed |-> FALSE, success |-> FALSE, error |-> "phone required",
     prize |-> None, found |-> None, hasPlayed |-> None, stats |-> None]

\* res.status(403).json({ error: 'Unauthorized' })
Unauthorized ==
    [status |-> 403, alreadyPlayed |-> FALSE, success |-> FALSE, error |-> "Unauthorized",
     prize |-> None, found |-> None, hasPlayed |-> None, stats |-> None]

\* res.json({ stats })
StatsResponse(stats) ==
    [status |-> 200, alreadyPlayed |-> FALSE, success |-> FALSE, error |-> "", prize |-> None,
     found |-> None, hasPlayed |-> None, stats |-> Some(stats)]

\* GET /customer/:phone: { found: false }, or found with hasPlayed and prize
\* (null when there is no 'Spin Prize:' tag)
ParticipantResponse(c) ==
    [status |-> 200, alreadyPlayed |-> FALSE, success |-> FALSE, error |-> "",
     prize |-> IF IsNull(c) THEN None ELSE getPrizeFromTags(Val(c)),
     found |-> Some(~IsNull(c)),
     hasPlayed |-> IF IsNull(c) THEN None ELSE Some(hasPlayedWheel(Val(c))),
     stats |-> None]

\* what a spin for phone ph is answered if its lookup runs now and finds the marker
ReplayPrize(ph) == AlreadyPlayedResponse(getPrizeFromTags(Val(customers[ph]))).prize

HasPlayed(ph) == ~IsNull(customers[ph]) /\ hasPlayedWheel(Val(customers[ph]))

GotPrize(s) == ~IsNull(resp[s]) /\ Val(resp[s]).status = 200
               /\ ~Val(resp[s]).alreadyPlayed /\ ~IsNull(Val(resp[s]).prize)

GotAlreadyPlayed(s) == ~IsNull(resp[s]) /\ Val(resp[s]).alreadyPlayed

----------------------------------------------------------------------------
(* Initial state: the server has started (the metafields exist, the catalog *)
(* loads), phone p1 is unknown to the platform, p2 is a customer who has    *)
(* not played.  applied starts at the awards the counters already record.   *)

EmptySnap == [counts |-> None, dist |-> None, prizes |-> <<>>, existing |-> <<>>]

Init ==
    /\ impl \in {"metafield", "metaobject"}
    /\ customers = [ph \in Phones |-> IF ph = "p2" THEN Some(NewCustomer) ELSE None]
    /\ counts = InitialCounts
    /\ distribution = InitialDistribution
    /\ metaobjects \in (IF impl = "metaobject" THEN Catalogs ELSE {<<>>})
    /\ op = [s \in Slots |-> "none"]
    /\ pc = [s \in Slots |-> "idle"]
    /\ phone = [s \in Slots |-> ""]
    /\ adminKey = [s \in Slots |-> None]
    /\ customer = [s \in Slots |-> None]
    /\ snap = [s \in Slots |-> EmptySnap]
    /\ chosen = [s \in Slots |-> None]
    /\ prizeNumber = [s \in Slots |-> 0]
    /\ ri = [s \in Slots |-> 0]
    /\ resp = [s \in Slots |-> None]
    /\ started = 0
    /\ applied = [id \in PrizeIds |-> IF id \in KnownPrizes THEN TotalDistributed(id) ELSE 0]
    /\ awarded = [id \in PrizeIds |-> 0]
    /\ wins = [ph \in Phones |-> 0]
    /\ resetRan = FALSE
    /\ sinceReset = [id \in PrizeIds |-> 0]
    /\ unmarked = [ph \in Phones |-> 0]
    /\ resets = 0

----------------------------------------------------------------------------
(* Requests *)

\* a request is served by the first free handler slot
Free(s) == pc[s] \in {"idle", "done"}
FirstFree(s) == Free(s) /\ (s = "h2" => ~Free("h1"))

Clear(s) ==
    /\ customer' = [customer EXCEPT ![s] = None]
    /\ snap' = [snap EXCEPT ![s] = EmptySnap]
    /\ chosen' = [chosen EXCEPT ![s] = None]
    /\ prizeNumber' = [prizeNumber EXCEPT ![s] = 0]
    /\ ri' = [ri EXCEPT ![s] = 0]
    /\ resp' = [resp EXCEPT ![s] = None]

\* the handler sends response r and returns; its locals are dropped
Return(s, r) ==
    /\ resp' = [resp EXCEPT ![s] = Some(r)]
    /\ pc' = [pc EXCEPT ![s] = "done"]
    /\ customer' = [customer EXCEPT ![s] = None]
    /\ snap' = [snap EXCEPT ![s] = EmptySnap]
    /\ chosen' = [chosen EXCEPT ![s] = None]
    /\ prizeNumber' = [prizeNumber EXCEPT ![s] = 0]
    /\ ri' = [ri EXCEPT ![s] = 0]

\* POST /spin arrives with a non-empty phone
StartSpin(s, ph) ==
    /\ FirstFree(s)
    /\ started < MaxRequests
    /\ started' = started + 1
    /\ op' = [op EXCEPT ![s] = "spin"]
    /\ phone' = [phone EXCEPT ![s] = ph]
    /\ adminKey' = [adminKey EXCEPT ![s] = None]
    /\ pc' = [pc EXCEPT ![s] = "lookup"]
    /\ Clear(s)
    /\ UNCHANGED <<impl, storeVars, histVars>>

\* POST /admin/reset-prizes arrives with the right adminKey
StartReset(s) ==
    /\ FirstFree(s)
    /\ started < MaxRequests
    /\ started' = started + 1
    /\ op' = [op EXCEPT ![s] = "reset"]
    /\ phone' = [phone EXCEPT ![s] = ""]
    /\ adminKey' = [adminKey EXCEPT ![s] = ADMIN_RESET_KEY]
    /\ pc' = [pc EXCEPT ![s] = "resetLoad"]
    /\ Clear(s)
    /\ UNCHANGED <<impl, storeVars, histVars>>

\* the first await after the participation gate
AfterGate == IF UsesMetafields THEN "loadCounts" ELSE "load"

\* mutant of PassesGate: a per-identity lock, held from the gate to the response
PassesGateLocked(s, c) ==
    /\ ~hasPlayedWheel(c)
    /\ ~\E t \in Slots \ {s} :
           op[t] = "spin" /\ phone[t] = phone[s] /\ pc[t] \notin {"idle", "done", "lookup", "create"}

\* the gate: the handler goes on to draw iff the customer object it was given
\* does not carry the marker
PassesGate(s, c) == ~hasPlayedWheel(c)

\* mutant of SpinLookup: the replay also rewrites the customer's note
SpinLookupRewritesNote(s) ==
    /\ op[s] = "spin" /\ pc[s] = "lookup"
    /\ IF IsNull(customers[phone[s]])
       THEN /\ pc' = [pc EXCEPT ![s] = "create"]
            /\ UNCHANGED <<customers, customer, snap, chosen, prizeNumber, ri, resp>>
       ELSE LET c == Val(customers[phone[s]])
            IN IF PassesGate(s, c)
               THEN /\ customer' = [customer EXCEPT ![s] = Some(c)]
                    /\ pc' = [pc EXCEPT ![s] = AfterGate]
                    /\ UNCHANGED <<customers, snap, chosen, prizeNumber, ri, resp>>
               ELSE /\ Return(s, AlreadyPlayedResponse(getPrizeFromTags(c)))
                    /\ customers' = [customers EXCEPT ![phone[s]] =
                           Some([c EXCEPT !.note.text = "Wheel Spin Replay"])]
    /\ UNCHANGED <<impl, counts, distribution, metaobjects, op, phone, adminKey, started, histVars>>

\* mutant of SpinLookup: a customer who has played is sent no response
SpinLookupSilent(s) ==
    /\ op[s] = "spin" /\ pc[s] = "lookup"
    /\ IF IsNull(customers[phone[s]])
       THEN /\ pc' = [pc EXCEPT ![s] = "create"]
            /\ UNCHANGED <<customer, snap, chosen, prizeNumber, ri, resp>>
       ELSE LET c == Val(customers[phone[s]])
            IN IF PassesGate(s, c)
               THEN /\ customer' = [customer EXCEPT ![s] = Some(c)]
                    /\ pc' = [pc EXCEPT ![s] = AfterGate]
                    /\ UNCHANGED <<snap, chosen, prizeNumber, ri, resp>>
               ELSE /\ pc' = [pc EXCEPT ![s] = "returned"]
                    /\ UNCHANGED <<customer, snap, chosen, prizeNumber, ri, resp>>
    /\ UNCHANGED <<impl, storeVars, op, phone, adminKey, started, histVars>>

\* findCustomerByPhone answers; the gate, or on to createCustomerWithPhone
SpinLookup(s) ==
    /\ op[s] = "spin" /\ pc[s] = "lookup"
    /\ IF IsNull(customers[phone[s]])
       THEN /\ pc' = [pc EXCEPT ![s] = "create"]
            /\ UNCHANGED <<customer, snap, chosen, prizeNumber, ri, resp>>
       ELSE LET c == Val(customers[phone[s]])
            IN IF PassesGate(s, c)
               THEN /\ customer' = [customer EXCEPT ![s] = Some(c)]
                    /\ pc' = [pc EXCEPT ![s] = AfterGate]
                    /\ UNCHANGED <<snap, chosen, prizeNumber, ri, resp>>
               ELSE Return(s, AlreadyPlayedResponse(getPrizeFromTags(c)))
    /\ UNCHANGED <<impl, storeVars, op, phone, adminKey, started, histVars>>

\* createCustomerWithPhone answers.  The platform keeps phone numbers unique:
\* when another request has created the customer meanwhile the call is
\* refused, which is the failure step below.
SpinCreate(s) ==
    /\ op[s] = "spin" /\ pc[s] = "create"
    /\ IsNull(customers[phone[s]])
    /\ customers' = [customers EXCEPT ![phone[s]] = Some(NewCustomer)]
    /\ customer' = [customer EXCEPT ![s] = Some(NewCustomer)]
    /\ pc' = [pc EXCEPT ![s] = AfterGate]
    /\ UNCHANGED <<impl, counts, distribution, metaobjects, op, phone, adminKey, snap, chosen,
                   prizeNumber, ri, resp, started, histVars>>

\* metafield variant: ensureShopPrizeCounts answers
SpinLoadCounts(s) ==
    /\ op[s] = "spin" /\ pc[s] = "loadCounts"
    /\ snap' = [snap EXCEPT ![s].counts = Some(counts)]
    /\ pc' = [pc EXCEPT ![s] = "loadDist"]
    /\ UNCHANGED <<impl, storeVars, op, phone, adminKey, customer, chosen, prizeNumber, ri, resp,
                   started, histVars>>

\* metafield variant: ensurePrizeDistribution answers
SpinLoadDistribution(s) ==
    /\ op[s] = "spin" /\ pc[s] = "loadDist"
    /\ snap' = [snap EXCEPT ![s].dist = Some(distribution)]
    /\ pc' = [pc EXCEPT ![s] = "draw"]
    /\ UNCHANGED <<impl, storeVars, op, phone, adminKey, customer, chosen, prizeNumber, ri, resp,
                   started, histVars>>


\* mutant of SpinLoadPrizes: a load that yields no prize does not throw
SpinLoadPrizesLenient(s) ==
    /\ op[s] = "spin" /\ pc[s] = "load"
    /\ snap' = [snap EXCEPT ![s].prizes = loadPrizesFromMetaobjects(metaobjects)]
    /\ pc' = [pc EXCEPT ![s] = "draw"]
    /\ UNCHANGED <<customer, chosen, prizeNumber, ri, resp>>
    /\ UNCHANGED <<impl, storeVars, op, phone, adminKey, started, histVars>>

\* metaobject variant: getCurrentPrizes answers, or throws when no valid prize
SpinLoadPrizes(s) ==
    /\ op[s] = "spin" /\ pc[s] = "load"
    /\ LET prizes == loadPrizesFromMetaobjects(metaobjects)
       IN IF Len(prizes) = 0
          THEN Return(s, ServerError)
          ELSE /\ snap' = [snap EXCEPT ![s].prizes = prizes]
               /\ pc' = [pc EXCEPT ![s] = "draw"]
               /\ UNCHANGED <<customer, chosen, prizeNumber, ri, resp>>
    /\ UNCHANGED <<impl, storeVars, op, phone, adminKey, started, histVars>>

\* mutant of AfterDraw: the marker is written straight after the draw
AfterDrawMarkerFirst(sn, p, via) == "writeTags"

\* the await that follows the draw of prize p
AfterDraw(sn, p, via) ==
    IF impl = "metaobject" THEN "writeMeta"
    ELSE IF via = "weighted" /\ ~IsNull(Val(sn.counts)[p.id]) THEN "writeCounts"
    ELSE "writeDist"

\* mutant of DecrementLocal: every capped prize of the handler's copy is
\* decremented
DecrementLocalAll(sn, p, via) ==
    IF UsesMetafields /\ via = "weighted"
    THEN [sn EXCEPT !.counts =
             Some([id \in PrizeIds |->
                      IF IsNull(Val(sn.counts)[id]) THEN None
                      ELSE Some(NewRemaining(Val(Val(sn.counts)[id])))])]
    ELSE sn

\* metafield variant: counts[chosen.id] = Math.max(0, counts[chosen.id] - 1),
\* on the handler's own copy of the counts object
DecrementLocal(sn, p, via) ==
    IF UsesMetafields /\ via = "weighted" /\ ~IsNull(Val(sn.counts)[p.id])
    THEN [sn EXCEPT !.counts = Some([Val(@) EXCEPT ![p.id] = Some(NewRemaining(Val(@)))])]
    ELSE sn

\* the handler filters the available prizes of its snapshot and draws
SpinDraw(s) ==
    /\ op[s] = "spin" /\ pc[s] = "draw"
    /\ LET av == Available(snap[s])
       IN \E pick \in (IF Len(av) = 0
                       THEN {[prize |-> Val(Fallback(snap[s])), via |-> "fallback"]}
                       ELSE {[prize |-> WeightedPick(av, r), via |-> "weighted"] :
                                 r \in RandomPoints(av)}) :
             /\ chosen' = [chosen EXCEPT ![s] = Some(pick)]
             /\ snap' = [snap EXCEPT ![s] = DecrementLocal(snap[s], pick.prize, pick.via)]
             /\ pc' = [pc EXCEPT ![s] = AfterDraw(snap[s], pick.prize, pick.via)]
    /\ UNCHANGED <<impl, storeVars, op, phone, adminKey, customer, prizeNumber, ri, resp, started,
                   histVars>>

\* mutant of SpinWriteCounts: the counts object is not written
SpinWriteCountsSkipped(s) ==
    /\ op[s] = "spin" /\ pc[s] = "writeCounts"
    /\ pc' = [pc EXCEPT ![s] = "writeDist"]
    /\ UNCHANGED <<impl, storeVars, op, phone, adminKey, customer, snap, chosen, prizeNumber, ri,
                   resp, started, histVars>>

\* metafield variant: setShopPrizeCounts writes the handler's counts object
SpinWriteCounts(s) ==
    /\ op[s] = "spin" /\ pc[s] = "writeCounts"
    /\ counts' = Val(snap[s].counts)
    /\ pc' = [pc EXCEPT ![s] = "writeDist"]
    /\ UNCHANGED <<impl, customers, distribution, metaobjects, op, phone, adminKey, customer, snap,
                   chosen, prizeNumber, ri, resp, started, histVars>>

\* metafield variant: incrementPrizeDistribution increments the handler's copy
\* of the distribution object and writes it
SpinWriteDistribution(s) ==
    /\ op[s] = "spin" /\ pc[s] = "writeDist"
    /\ LET id   == Val(chosen[s]).prize.id
           dist == [Val(snap[s].dist) EXCEPT ![id] = @ + 1]
       IN /\ distribution' = dist
          /\ snap' = [snap EXCEPT ![s].dist = Some(dist)]
          /\ prizeNumber' = [prizeNumber EXCEPT ![s] = dist[id]]
          /\ applied' = [applied EXCEPT ![id] = @ + 1]
          /\ sinceReset' = [sinceReset EXCEPT ![id] = @ + 1]
    /\ pc' = [pc EXCEPT ![s] = "writeTags"]
    /\ UNCHANGED <<impl, customers, counts, metaobjects, op, phone, adminKey, customer, chosen, ri,
                   resp, started, awarded, wins, resetRan, unmarked, resets>>

\* metaobject variant: updatePrizeAfterSpin writes the chosen prize's metaobject
SpinWriteMetaobject(s) ==
    /\ op[s] = "spin" /\ pc[s] = "writeMeta"
    /\ LET prize == Val(chosen[s]).prize
       IN /\ metaobjects' = updatePrizeMetaobject(metaobjects, prize.metaobjectId,
                                                  AfterSpinUpdates(prize))
          /\ prizeNumber' = [prizeNumber EXCEPT ![s] = prize.totalDistributed + 1]
          /\ applied' = [applied EXCEPT ![prize.id] = @ + 1]
          /\ sinceReset' = [sinceReset EXCEPT ![prize.id] = @ + 1]
    /\ pc' = [pc EXCEPT ![s] = "writeTags"]
    /\ UNCHANGED <<impl, customers, counts, distribution, op, phone, adminKey, customer, snap, chosen,
                   ri, resp, started, awarded, wins, resetRan, unmarked, resets>>

\* addPrizeToCustomer, first PUT: the tags
SpinWriteTags(s) ==
    /\ op[s] = "spin" /\ pc[s] = "writeTags"
    /\ customers' = [customers EXCEPT ![phone[s]] =
           Some([Val(@) EXCEPT !.tags = MarkerTags(Val(customer[s]), Val(chosen[s]).prize,
                                                   prizeNumber[s])])]
    /\ pc' = [pc EXCEPT ![s] = "writeNote"]
    /\ UNCHANGED <<impl, counts, distribution, metaobjects, op, phone, adminKey, customer, snap, chosen,
                   prizeNumber, ri, resp, started, histVars>>

\* the points where a call of syncPrizesToMetaobjects is outstanding
SyncAwaits == {"syncLoad", "syncWrite"}

\* the spin handler sends the prize.  The mirroring server has called
\* syncPrizesToMetaobjects just before, without awaiting it: the sync goes on
\* with the handler's counts and distribution objects after the response
SpinAnswers(s, r) ==
    IF impl = "mirror"
    THEN /\ resp' = [resp EXCEPT ![s] = Some(r)]
         /\ pc' = [pc EXCEPT ![s] = "syncLoad"]
         /\ UNCHANGED <<customer, snap, chosen, prizeNumber, ri>>
    ELSE Return(s, r)

\* addPrizeToCustomer, second PUT: the note; then the handler answers
SpinWriteNote(s) ==
    /\ op[s] = "spin" /\ pc[s] = "writeNote"
    /\ LET pick == Val(chosen[s])
       IN /\ customers' = [customers EXCEPT ![phone[s]] =
                 Some([Val(@) EXCEPT !.note = MarkerNote(pick.prize, prizeNumber[s])])]
          /\ SpinAnswers(s, PrizeResponse(
                 IF pick.via = "fallback" THEN None ELSE Some(pick.prize.id),
                 pick.prize.label, prizeNumber[s]))
          /\ awarded' = [awarded EXCEPT ![pick.prize.id] =
                 IF pick.via = "weighted" THEN @ + 1 ELSE @]
    /\ wins' = [wins EXCEPT ![phone[s]] = @ + 1]
    /\ UNCHANGED <<impl, counts, distribution, metaobjects, op, phone, adminKey, started, applied,
                   resetRan, sinceReset, unmarked, resets>>

\* reset-prizes reads the inventory: ensureShopPrizeCounts, or getCurrentPrizes
ResetLoad(s) ==
    /\ op[s] = "reset" /\ pc[s] = "resetLoad"
    /\ IF UsesMetafields
       THEN /\ snap' = [snap EXCEPT ![s].counts = Some(counts)]
            /\ pc' = [pc EXCEPT ![s] = IF impl = "mirror" THEN "resetLoadDist" ELSE "resetWrite"]
            /\ UNCHANGED <<customer, chosen, prizeNumber, ri, resp>>
       ELSE LET prizes == loadPrizesFromMetaobjects(metaobjects)
            IN IF Len(prizes) = 0
               THEN Return(s, ServerError)
               ELSE /\ snap' = [snap EXCEPT ![s].prizes = prizes]
                    /\ ri' = [ri EXCEPT ![s] = 1]
                    /\ pc' = [pc EXCEPT ![s] = "resetWriteOne"]
                    /\ UNCHANGED <<customer, chosen, prizeNumber, resp>>
    /\ UNCHANGED <<impl, storeVars, op, phone, adminKey, started, histVars>>

\* mirroring server: ensurePrizeDistribution answers
ResetLoadDistribution(s) ==
    /\ op[s] = "reset" /\ pc[s] = "resetLoadDist"
    /\ snap' = [snap EXCEPT ![s].dist = Some(distribution)]
    /\ pc' = [pc EXCEPT ![s] = "resetWrite"]
    /\ UNCHANGED <<impl, storeVars, op, phone, adminKey, customer, chosen, prizeNumber, ri, resp,
                   started, histVars>>

\* metafield variant: setShopPrizeCounts(resetCounts); then the handler
\* answers, or, in the mirroring server, awaits the sync of resetCounts first
ResetWrite(s) ==
    /\ op[s] = "reset" /\ pc[s] = "resetWrite"
    /\ counts' = ResetCounts
    /\ resetRan' = TRUE
    /\ sinceReset' = [id \in PrizeIds |-> 0]
    /\ IF impl = "mirror"
       THEN /\ snap' = [snap EXCEPT ![s].counts = Some(ResetCounts)]
            /\ pc' = [pc EXCEPT ![s] = "syncLoad"]
            /\ UNCHANGED <<customer, chosen, prizeNumber, ri, resp, resets>>
       ELSE /\ resets' = resets + 1
            /\ Return(s, ResetResponse)
    /\ UNCHANGED <<impl, customers, distribution, metaobjects, op, phone, adminKey, started, applied,
                   awarded, wins, unmarked>>

\* mutant of ResetWriteOne: the handler answers after its first write
ResetWriteOneAnswersEarly(s) ==
    /\ op[s] = "reset" /\ pc[s] = "resetWriteOne"
    /\ metaobjects' = updatePrizeMetaobject(metaobjects, snap[s].prizes[ri[s]].metaobjectId,
                                            ResetUpdates(snap[s].prizes[ri[s]]))
    /\ Return(s, ResetResponse)
    /\ resets' = resets + 1
    /\ resetRan' = TRUE
    /\ sinceReset' = [sinceReset EXCEPT ![snap[s].prizes[ri[s]].id] = 0]
    /\ UNCHANGED <<impl, customers, counts, distribution, op, phone, adminKey, started, applied,
                   awarded, wins, unmarked>>

\* metaobject variant: one pass of the loop over PRIZES; after the last prize
\* the handler answers
ResetWriteOne(s) ==
    /\ op[s] = "reset" /\ pc[s] = "resetWriteOne"
    /\ LET prize == snap[s].prizes[ri[s]]
           last  == ri[s] = Len(snap[s].prizes)
       IN /\ metaobjects' = updatePrizeMetaobject(metaobjects, prize.metaobjectId,
                                                  ResetUpdates(prize))
          /\ IF last THEN Return(s, ResetResponse) /\ resets' = resets + 1
             ELSE /\ ri' = [ri EXCEPT ![s] = @ + 1]
                  /\ UNCHANGED <<pc, customer, snap, chosen, prizeNumber, resp, resets>>
    /\ resetRan' = TRUE
    /\ sinceReset' = [sinceReset EXCEPT ![snap[s].prizes[ri[s]].id] = 0]
    /\ UNCHANGED <<impl, customers, counts, distribution, op, phone, adminKey, started, applied,
                   awarded, wins, unmarked>>

\* the handler answers r before its first await: the request arrives and is
\* answered in one step
Rejects(s, endpoint, key, r) ==
    /\ FirstFree(s)
    /\ started < MaxRequests
    /\ started' = started + 1
    /\ op' = [op EXCEPT ![s] = endpoint]
    /\ phone' = [phone EXCEPT ![s] = ""]
    /\ adminKey' = [adminKey EXCEPT ![s] = key]
    /\ Return(s, r)
    /\ UNCHANGED <<impl, storeVars, histVars>>

\* the check of the phone comes after findCustomerByPhone
SpinRejectsAfterLookup(s, raw) ==
    /\ Trim(raw) = ""
    /\ FirstFree(s)
    /\ started < MaxRequests
    /\ started' = started + 1
    /\ op' = [op EXCEPT ![s] = "spin"]
    /\ phone' = [phone EXCEPT ![s] = ""]
    /\ adminKey' = [adminKey EXCEPT ![s] = None]
    /\ pc' = [pc EXCEPT ![s] = "lookup"]
    /\ Clear(s)
    /\ UNCHANGED <<impl, storeVars, histVars>>

\* POST /spin whose phone is missing, empty or blank: 400 before any call
SpinRejects(s, raw) ==
    /\ Trim(raw) = ""
    /\ Rejects(s, "spin", None, ValidationError)

\* the reset handler compares the key only after its writes: a request with
\* a wrong key starts the reset
ResetRejectsAfterWrites(s, key) ==
    /\ key # ADMIN_RESET_KEY
    /\ FirstFree(s)
    /\ started < MaxRequests
    /\ started' = started + 1
    /\ op' = [op EXCEPT ![s] = "reset"]
    /\ phone' = [phone EXCEPT ![s] = ""]
    /\ adminKey' = [adminKey EXCEPT ![s] = key]
    /\ pc' = [pc EXCEPT ![s] = "resetLoad"]
    /\ Clear(s)
    /\ UNCHANGED <<impl, storeVars, histVars>>

\* POST /admin/reset-prizes whose adminKey is not the configured one: 403
ResetRejects(s, key) ==
    /\ key # ADMIN_RESET_KEY
    /\ Rejects(s, "reset", key, Unauthorized)

\* GET /admin/stats whose adminKey is not the configured one: 403
StatsRejects(s, key) ==
    /\ key # ADMIN_RESET_KEY
    /\ Rejects(s, "stats", key, Unauthorized)

\* GET /admin/stats arrives with the right adminKey
StartStats(s) ==
    /\ FirstFree(s)
    /\ started < MaxRequests
    /\ started' = started + 1
    /\ op' = [op EXCEPT ![s] = "stats"]
    /\ phone' = [phone EXCEPT ![s] = ""]
    /\ adminKey' = [adminKey EXCEPT ![s] = ADMIN_RESET_KEY]
    /\ pc' = [pc EXCEPT ![s] = "statsLoad"]
    /\ Clear(s)
    /\ UNCHANGED <<impl, storeVars, histVars>>

\* the stats the handler builds from what it loaded
StatsOf(sn) ==
    IF UsesMetafields
    THEN [i \in 1..Len(PRIZES) |->
             [id |-> PRIZES[i].id, max |-> PRIZES[i].max,
              remaining |-> Val(sn.counts)[PRIZES[i].id],
              totalDistributed |-> Val(sn.dist)[PRIZES[i].id]]]
    ELSE [i \in 1..Len(sn.prizes) |->
             [id |-> sn.prizes[i].id, max |-> sn.prizes[i].max,
              remaining |-> sn.prizes[i].remaining,
              totalDistributed |-> sn.prizes[i].totalDistributed]]

\* stats reads the inventory: ensureShopPrizeCounts, or getCurrentPrizes after
\* which the metaobject variant answers
StatsLoad(s) ==
    /\ op[s] = "stats" /\ pc[s] = "statsLoad"
    /\ IF UsesMetafields
       THEN /\ snap' = [snap EXCEPT ![s].counts = Some(counts)]
            /\ pc' = [pc EXCEPT ![s] = "statsLoadDist"]
            /\ UNCHANGED <<customer, chosen, prizeNumber, ri, resp>>
       ELSE LET prizes == loadPrizesFromMetaobjects(metaobjects)
            IN IF Len(prizes) = 0
               THEN Return(s, ServerError)
               ELSE Return(s, StatsResponse(StatsOf([snap[s] EXCEPT !.prizes = prizes])))
    /\ UNCHANGED <<impl, storeVars, op, phone, adminKey, started, histVars>>

\* metafield variant: ensurePrizeDistribution answers; then the handler answers
StatsLoadDistribution(s) ==
    /\ op[s] = "stats" /\ pc[s] = "statsLoadDist"
    /\ Return(s, StatsResponse(StatsOf([snap[s] EXCEPT !.dist = Some(distribution)])))
    /\ UNCHANGED <<impl, storeVars, op, phone, adminKey, started, histVars>>

\* GET /customer/:phone arrives
StartParticipant(s, ph) ==
    /\ FirstFree(s)
    /\ started < MaxRequests
    /\ started' = started + 1
    /\ op' = [op EXCEPT ![s] = "participant"]
    /\ phone' = [phone EXCEPT ![s] = ph]
    /\ adminKey' = [adminKey EXCEPT ![s] = None]
    /\ pc' = [pc EXCEPT ![s] = "participantLookup"]
    /\ Clear(s)
    /\ UNCHANGED <<impl, storeVars, histVars>>

\* the lookup creates the customer it does not find, as a spin does
ParticipantLookupCreates(s) ==
    /\ op[s] = "participant" /\ pc[s] = "participantLookup"
    /\ customers' = [customers EXCEPT ![phone[s]] = IF IsNull(@) THEN Some(NewCustomer) ELSE @]
    /\ Return(s, ParticipantResponse(customers[phone[s]]))
    /\ UNCHANGED <<impl, counts, distribution, metaobjects, op, phone, adminKey, started, histVars>>

\* findCustomerByPhone answers; then the handler answers
ParticipantLookup(s) ==
    /\ op[s] = "participant" /\ pc[s] = "participantLookup"
    /\ Return(s, ParticipantResponse(customers[phone[s]]))
    /\ UNCHANGED <<impl, storeVars, op, phone, adminKey, started, histVars>>

\* createPrizeMetaobject / updatePrizeMetaobject of the mirroring server: the
\* fields written for a prize (max_available is kept in max_count; the mirror
\* has no probability; is_available and last_updated are left out)
MirrorMetaobject(gid, prize, cnts, dist) ==
    Metaobject(gid, Some(prize.id), Some(prize.label), None,
               Some(IF IsNull(prize.max) THEN -1 ELSE Val(prize.max)),
               Some(IF IsNull(cnts[prize.id]) THEN -1 ELSE Val(cnts[prize.id])),
               Some(dist[prize.id]))

\* the mirror after a sync of the initial inventory
SyncedMirror ==
    [i \in 1..Len(PRIZES) |-> MirrorMetaobject(i, PRIZES[i], InitialCounts, InitialDistribution)]

\* syncPrizesToMetaobjects returns (true or false, never throwing): a reset
\* that awaited it answers success, a spin has answered already
SyncReturns(s) ==
    IF op[s] = "reset"
    THEN /\ Return(s, ResetResponse)
         /\ resets' = resets + 1
    ELSE /\ pc' = [pc EXCEPT ![s] = "done"]
         /\ customer' = [customer EXCEPT ![s] = None]
         /\ snap' = [snap EXCEPT ![s] = EmptySnap]
         /\ chosen' = [chosen EXCEPT ![s] = None]
         /\ prizeNumber' = [prizeNumber EXCEPT ![s] = 0]
         /\ ri' = [ri EXCEPT ![s] = 0]
         /\ UNCHANGED <<resp, resets>>

\* sync: getAllWheelPrizeMetaobjects answers with the existing metaobjects
SyncLoad(s) ==
    /\ pc[s] = "syncLoad"
    /\ snap' = [snap EXCEPT ![s].existing = metaobjects]
    /\ ri' = [ri EXCEPT ![s] = 1]
    /\ pc' = [pc EXCEPT ![s] = "syncWrite"]
    /\ UNCHANGED <<impl, storeVars, op, phone, adminKey, customer, chosen, prizeNumber, resp,
                   started, histVars>>

\* sync: one pass of the loop over PRIZES: the prize's metaobject is updated if
\* the loaded list has one with its prize_id, created otherwise; after the last
\* prize the sync returns
SyncWrite(s) ==
    /\ pc[s] = "syncWrite"
    /\ LET prize    == PRIZES[ri[s]]
           existing == FirstAt(snap[s].existing,
                               {i \in 1..Len(snap[s].existing) :
                                   snap[s].existing[i].prize_id = Some(prize.id)})
           cnts     == Val(snap[s].counts)
           dist     == Val(snap[s].dist)
       IN metaobjects' =
             IF IsNull(existing)
             THEN Append(metaobjects, MirrorMetaobject(Len(metaobjects) + 1, prize, cnts, dist))
             ELSE [i \in DOMAIN metaobjects |->
                      IF metaobjects[i].id = Val(existing).id
                      THEN MirrorMetaobject(metaobjects[i].id, prize, cnts, dist)
                      ELSE metaobjects[i]]
    /\ IF ri[s] = Len(PRIZES)
       THEN SyncReturns(s)
       ELSE /\ ri' = [ri EXCEPT ![s] = @ + 1]
            /\ UNCHANGED <<pc, customer, snap, chosen, prizeNumber, resp, resets>>
    /\ UNCHANGED <<impl, customers, counts, distribution, op, phone, adminKey, started, applied,
                   awarded, wins, resetRan, sinceReset, unmarked>>

\* mutant of SyncFails: the failure of the sync reaches the handler's catch
SyncFailsPropagates(s) ==
    /\ pc[s] \in SyncAwaits
    /\ Return(s, ServerError)
    /\ UNCHANGED <<impl, storeVars, op, phone, adminKey, started, histVars>>

\* sync: a call of the sync fails: the listing returns null, or a create or an
\* update throws into the sync's own catch; the sync returns false
SyncFails(s) ==
    /\ pc[s] \in SyncAwaits
    /\ SyncReturns(s)
    /\ UNCHANGED <<impl, storeVars, op, phone, adminKey, started, applied, awarded, wins,
                   resetRan, sinceReset, unmarked>>

\* the awaits: the points where a call to the platform is outstanding
Awaits == {"lookup", "create", "loadCounts", "loadDist", "load", "writeCounts", "writeDist",
           "writeMeta", "writeTags", "writeNote", "resetLoad", "resetWrite", "resetWriteOne",
           "statsLoad", "statsLoadDist", "participantLookup", "resetLoadDist"}

\* mutant of CallFails: a marker write that fails has stored the marker
CallFailsMarksPlayed(s) ==
    /\ pc[s] \in Awaits
    /\ Return(s, ServerError)
    /\ unmarked' = IF op[s] = "spin" /\ pc[s] = "writeTags"
                   THEN [unmarked EXCEPT ![phone[s]] = @ + 1] ELSE unmarked
    /\ customers' = IF op[s] = "spin" /\ pc[s] = "writeTags"
                    THEN [customers EXCEPT ![phone[s]] =
                             Some([Val(@) EXCEPT !.tags =
                                      MarkerTags(Val(customer[s]), Val(chosen[s]).prize,
                                                 prizeNumber[s])])]
                    ELSE customers
    /\ UNCHANGED <<impl, counts, distribution, metaobjects, op, phone, adminKey, started, applied,
                   awarded, wins, resetRan, sinceReset, resets>>

\* the outstanding call fails (shopifyRequest / shopifyGraphQL throws): the
\* handler's catch answers 500 and nothing is written
CallFails(s) ==
    /\ pc[s] \in Awaits
    /\ Return(s, ServerError)
    /\ unmarked' = IF op[s] = "spin" /\ pc[s] = "writeTags"
                   THEN [unmarked EXCEPT ![phone[s]] = @ + 1] ELSE unmarked
    /\ UNCHANGED <<impl, storeVars, op, phone, adminKey, started, applied, awarded, wins, resetRan,
                   sinceReset, resets>>

Next ==
    \E s \in Slots :
        \/ \E raw \in RawPhones : Trim(raw) # "" /\ StartSpin(s, Trim(raw))
        \/ \E raw \in RawPhones : SpinRejects(s, raw)
        \/ StartReset(s)
        \/ \E key \in AdminKeys : ResetRejects(s, key)
        \/ StartStats(s)
        \/ \E key \in AdminKeys : StatsRejects(s, key)
        \/ StatsLoad(s)
        \/ StatsLoadDistribution(s)
        \/ \E ph \in Phones : StartParticipant(s, ph)
        \/ ParticipantLookup(s)
        \/ SpinLookup(s)
        \/ SpinCreate(s)
        \/ SpinLoadCounts(s)
        \/ SpinLoadDistribution(s)
        \/ SpinLoadPrizes(s)
        \/ SpinDraw(s)
        \/ SpinWriteCounts(s)
        \/ SpinWriteDistribution(s)
        \/ SpinWriteMetaobject(s)
        \/ SpinWriteTags(s)
        \/ SpinWriteNote(s)
        \/ ResetLoad(s)
        \/ ResetWrite(s)
        \/ ResetWriteOne(s)
        \/ CallFails(s)

Spec == Init /\ [][Next]_vars

\* the handler of slot s resumes: the call it awaits returns or fails, or its
\* synchronous draw runs
HandlerStep(s) ==
    \/ CallFails(s)
    \/ SpinDraw(s)
    \/ StatsLoad(s)
    \/ StatsLoadDistribution(s)
    \/ ParticipantLookup(s)
    \/ SpinLookup(s)
    \/ SpinCreate(s)
    \/ SpinLoadCounts(s)
    \/ SpinLoadDistribution(s)
    \/ SpinLoadPrizes(s)
    \/ SpinWriteCounts(s)
    \/ SpinWriteDistribution(s)
    \/ SpinWriteMetaobject(s)
    \/ SpinWriteTags(s)
    \/ SpinWriteNote(s)
    \/ ResetLoad(s)
    \/ ResetWrite(s)
    \/ ResetWriteOne(s)

\* the same server when every call to the platform eventually returns or
\* fails: no handler stays suspended for ever
FairSpec == Spec /\ \A s \in Slots : WF_vars(HandlerStep(s))

----------------------------------------------------------------------------
(* The metaobject variant on catalogs that may be malformed.  The requests  *)
(* that load the catalog (spin, stats) are served one after the other.     *)

LoadInit ==
    /\ impl = "metaobject"
    /\ customers = [ph \in Phones |-> IF ph = "p2" THEN Some(NewCustomer) ELSE None]
    /\ counts = InitialCounts
    /\ distribution = InitialDistribution
    /\ metaobjects \in FieldCatalogs \cup EntryCatalogs
    /\ op = [s \in Slots |-> "none"]
    /\ pc = [s \in Slots |-> "idle"]
    /\ phone = [s \in Slots |-> ""]
    /\ adminKey = [s \in Slots |-> None]
    /\ customer = [s \in Slots |-> None]
    /\ snap = [s \in Slots |-> EmptySnap]
    /\ chosen = [s \in Slots |-> None]
    /\ prizeNumber = [s \in Slots |-> 0]
    /\ ri = [s \in Slots |-> 0]
    /\ resp = [s \in Slots |-> None]
    /\ started = 0
    /\ applied = [id \in PrizeIds |-> 0]
    /\ awarded = [id \in PrizeIds |-> 0]
    /\ wins = [ph \in Phones |-> 0]
    /\ resetRan = FALSE
    /\ sinceReset = [id \in PrizeIds |-> 0]
    /\ unmarked = [ph \in Phones |-> 0]
    /\ resets = 0

LoadNext ==
    \E s \in {"h1"} :
        \/ \E raw \in RawPhones : Trim(raw) # "" /\ StartSpin(s, Trim(raw))
        \/ SpinLookup(s)
        \/ SpinCreate(s)
        \/ SpinLoadPrizes(s)
        \/ SpinDraw(s)
        \/ SpinWriteMetaobject(s)
        \/ SpinWriteTags(s)
        \/ SpinWriteNote(s)
        \/ StartStats(s)
        \/ StatsLoad(s)
        \/ CallFails(s)

LoadSpec == LoadInit /\ [][LoadNext]_vars

----------------------------------------------------------------------------
(* Sequential, failure-free runs: spins and resets served one after the     *)
(* other by one handler, no call to the platform fails, and the inventory   *)
(* starts full (every capped prize's remaining is its cap).                 *)

\* a catalog whose capped prizes are full
FullCatalog(cat) ==
    [i \in DOMAIN cat |->
        IF cat[i].max_count = Some(-1) THEN cat[i]
        ELSE [cat[i] EXCEPT !.remaining_count = cat[i].max_count]]

\* a campaign of one prize, capped, with the id 'better_luck'
CatalogOnlyFallback ==
    << Metaobject(1, Some("better_luck"), Some("Better Luck Next Time"), Some(50), Some(1), Some(1), Some(0)) >>

FullCatalogs == {FullCatalog(cat) : cat \in Catalogs} \cup {CatalogOnlyFallback}

SeqInit ==
    /\ impl \in {"metafield", "metaobject"}
    /\ customers = [ph \in Phones |-> IF ph = "p2" THEN Some(NewCustomer) ELSE None]
    /\ counts = InitialCounts
    /\ distribution = InitialDistribution
    /\ metaobjects \in (IF impl = "metaobject" THEN FullCatalogs ELSE {<<>>})
    /\ op = [s \in Slots |-> "none"]
    /\ pc = [s \in Slots |-> "idle"]
    /\ phone = [s \in Slots |-> ""]
    /\ adminKey = [s \in Slots |-> None]
    /\ customer = [s \in Slots |-> None]
    /\ snap = [s \in Slots |-> EmptySnap]
    /\ chosen = [s \in Slots |-> None]
    /\ prizeNumber = [s \in Slots |-> 0]
    /\ ri = [s \in Slots |-> 0]
    /\ resp = [s \in Slots |-> None]
    /\ started = 0
    /\ applied = [id \in PrizeIds |-> IF id \in KnownPrizes THEN TotalDistributed(id) ELSE 0]
    /\ awarded = [id \in PrizeIds |-> 0]
    /\ wins = [ph \in Phones |-> 0]
    /\ resetRan = FALSE
    /\ sinceReset = [id \in PrizeIds |-> 0]
    /\ unmarked = [ph \in Phones |-> 0]
    /\ resets = 0

SeqNext ==
    \E s \in {"h1"} :
        \/ \E raw \in RawPhones : Trim(raw) # "" /\ StartSpin(s, Trim(raw))
        \/ StartReset(s)
        \/ SpinLookup(s)
        \/ SpinCreate(s)
        \/ SpinLoadCounts(s)
        \/ SpinLoadDistribution(s)
        \/ SpinLoadPrizes(s)
        \/ SpinDraw(s)
        \/ SpinWriteCounts(s)
        \/ SpinWriteDistribution(s)
        \/ SpinWriteMetaobject(s)
        \/ SpinWriteTags(s)
        \/ SpinWriteNote(s)
        \/ ResetLoad(s)
        \/ ResetWrite(s)
        \/ ResetWriteOne(s)

SeqSpec == SeqInit /\ [][SeqNext]_vars

----------------------------------------------------------------------------
(* A campaign under way: one award has been given out before the requests   *)
(* of the run arrive.  Spins and resets overlap; no call to the platform    *)
(* fails.                                                                   *)

\* metafield variant: the counts and the distribution after one award of
\* kivo_easy_lite
GivenCounts == [InitialCounts EXCEPT !["kivo_easy_lite"] = Some(NewRemaining(Val(@)))]
GivenDistribution == [InitialDistribution EXCEPT !["kivo_easy_lite"] = @ + 1]

\* metaobject variant: a prize with a cap of 2, one of which has been given out
CatalogHalfGiven ==
    << Metaobject(1, Some("kivo_easy_lite"), Some("Kivo Easy Lite"), Some(50), Some(2), Some(1), Some(1)),
       Metaobject(2, Some("better_luck"), Some("Better Luck Next Time"), Some(50), Some(-1), None, Some(0)) >>

CampaignInit ==
    /\ impl \in {"metafield", "metaobject"}
    /\ customers = [ph \in Phones |-> IF ph = "p2" THEN Some(NewCustomer) ELSE None]
    /\ counts = (IF impl = "metafield" THEN GivenCounts ELSE InitialCounts)
    /\ distribution = (IF impl = "metafield" THEN GivenDistribution ELSE InitialDistribution)
    /\ metaobjects \in (IF impl = "metaobject" THEN {CatalogAllCapped, CatalogHalfGiven} ELSE {<<>>})
    /\ op = [s \in Slots |-> "none"]
    /\ pc = [s \in Slots |-> "idle"]
    /\ phone = [s \in Slots |-> ""]
    /\ adminKey = [s \in Slots |-> None]
    /\ customer = [s \in Slots |-> None]
    /\ snap = [s \in Slots |-> EmptySnap]
    /\ chosen = [s \in Slots |-> None]
    /\ prizeNumber = [s \in Slots |-> 0]
    /\ ri = [s \in Slots |-> 0]
    /\ resp = [s \in Slots |-> None]
    /\ started = 0
    /\ applied = [id \in PrizeIds |-> IF id \in KnownPrizes THEN TotalDistributed(id) ELSE 0]
    /\ awarded = [id \in PrizeIds |-> 0]
    /\ wins = [ph \in Phones |-> 0]
    /\ resetRan = FALSE
    /\ sinceReset = [id \in PrizeIds |-> 0]
    /\ unmarked = [ph \in Phones |-> 0]
    /\ resets = 0

CampaignNext ==
    \E s \in Slots :
        \/ \E raw \in RawPhones : Trim(raw) # "" /\ StartSpin(s, Trim(raw))
        \/ StartReset(s)
        \/ SpinLookup(s)
        \/ SpinCreate(s)
        \/ SpinLoadCounts(s)
        \/ SpinLoadDistribution(s)
        \/ SpinLoadPrizes(s)
        \/ SpinDraw(s)
        \/ SpinWriteCounts(s)
        \/ SpinWriteDistribution(s)
        \/ SpinWriteMetaobject(s)
        \/ SpinWriteTags(s)
        \/ SpinWriteNote(s)
        \/ ResetLoad(s)
        \/ ResetWrite(s)
        \/ ResetWriteOne(s)

CampaignSpec == CampaignInit /\ [][CampaignNext]_vars

----------------------------------------------------------------------------
(* The mirroring server: the metafield server, which after a spin's and a   *)
(* reset's writes copies the inventory to wheel_prize metaobjects.  The     *)
(* mirror starts empty or in sync.                                          *)

MirrorInit ==
    /\ impl = "mirror"
    /\ customers = [ph \in Phones |-> IF ph = "p2" THEN Some(NewCustomer) ELSE None]
    /\ counts = InitialCounts
    /\ distribution = InitialDistribution
    /\ metaobjects \in {<<>>, SyncedMirror}
    /\ op = [s \in Slots |-> "none"]
    /\ pc = [s \in Slots |-> "idle"]
    /\ phone = [s \in Slots |-> ""]
    /\ adminKey = [s \in Slots |-> None]
    /\ customer = [s \in Slots |-> None]
    /\ snap = [s \in Slots |-> EmptySnap]
    /\ chosen = [s \in Slots |-> None]
    /\ prizeNumber = [s \in Slots |-> 0]
    /\ ri = [s \in Slots |-> 0]
    /\ resp = [s \in Slots |-> None]
    /\ started = 0
    /\ applied = [id \in PrizeIds |-> 0]
    /\ awarded = [id \in PrizeIds |-> 0]
    /\ wins = [ph \in Phones |-> 0]
    /\ resetRan = FALSE
    /\ sinceReset = [id \in PrizeIds |-> 0]
    /\ unmarked = [ph \in Phones |-> 0]
    /\ resets = 0

MirrorNext ==
    \E s \in Slots :
        \/ \E raw \in RawPhones : Trim(raw) # "" /\ StartSpin(s, Trim(raw))
        \/ StartReset(s)
        \/ SpinLookup(s)
        \/ SpinCreate(s)
        \/ SpinLoadCounts(s)
        \/ SpinLoadDistribution(s)
        \/ SpinDraw(s)
        \/ SpinWriteCounts(s)
        \/ SpinWriteDistribution(s)
        \/ SpinWriteTags(s)
        \/ SpinWriteNote(s)
        \/ ResetLoad(s)
        \/ ResetLoadDistribution(s)
        \/ ResetWrite(s)
        \/ SyncLoad(s)
        \/ SyncWrite(s)
        \/ SyncFails(s)
        \/ CallFails(s)

MirrorSpec == MirrorInit /\ [][MirrorNext]_vars

\* the mirroring server when no call to the platform fails
MirrorQuietNext ==
    \E s \in Slots :
        \/ \E raw \in RawPhones : Trim(raw) # "" /\ StartSpin(s, Trim(raw))
        \/ StartReset(s)
        \/ SpinLookup(s)
        \/ SpinCreate(s)
        \/ SpinLoadCounts(s)
        \/ SpinLoadDistribution(s)
        \/ SpinDraw(s)
        \/ SpinWriteCounts(s)
        \/ SpinWriteDistribution(s)
        \/ SpinWriteTags(s)
        \/ SpinWriteNote(s)
        \/ ResetLoad(s)
        \/ ResetLoadDistribution(s)
        \/ ResetWrite(s)
        \/ SyncLoad(s)
        \/ SyncWrite(s)

MirrorQuietSpec == MirrorInit /\ [][MirrorQuietNext]_vars

----------------------------------------------------------------------------
(* Properties *)

Capped(id) == ~IsNull(Cap(id))

\* remaining of a prize exactly as stored (no clamping by the loader)
RawRemaining(id) ==
    IF UsesMetafields THEN counts[id]
    ELSE Val(StoredMetaobject(id)).remaining_count

\* slot s takes a step of reset-prizes that writes to the inventory
ResetWrites(s) ==
    /\ op[s] = "reset" /\ pc[s] \in {"resetWrite", "resetWriteOne"}
    /\ ~IsNull(resp'[s]) \/ ri'[s] # ri[s]
    /\ ~(~IsNull(resp'[s]) /\ Val(resp'[s]).status = 500)

\* C1: each identity is awarded at most one prize: no phone is answered a
\* freshly drawn prize twice.
OnePrizePerIdentity == \A ph \in Phones : wins[ph] <= 1

\* C2: the gate consults nothing but the persisted marker: a spin whose lookup
\* finds the customer without the marker goes on to load the catalog and draw,
\* whatever other requests for the same identity are in flight.
GatePassesWithoutMarker ==
    [][\A s \in Slots :
          ( /\ op[s] = "spin" /\ pc[s] = "lookup" /\ pc'[s] # "lookup"
            /\ ~IsNull(customers[phone[s]]) /\ ~HasPlayed(phone[s])
            /\ resp'[s] # Some(ServerError) )
          => (pc'[s] = AfterGate /\ IsNull(resp'[s]))]_vars

\* C2 witness: two requests for one identity have both been answered a freshly
\* drawn prize, and both awards are in the counters.
DuplicateAwardReached ==
    \E s1, s2 \in Slots :
        /\ s1 # s2 /\ phone[s1] = phone[s2]
        /\ GotPrize(s1) /\ GotPrize(s2)
        /\ wins[phone[s1]] = 2

\* C3: once a spin for an identity has succeeded, the identity stays played
\* and the payload a repeated spin is answered never changes.
ReplayIsStable ==
    [][\A ph \in Phones :
          (wins[ph] > 0 /\ HasPlayed(ph))
          => (HasPlayed(ph)' /\ ReplayPrize(ph)' = ReplayPrize(ph))]_vars

\* C4: a spin answered alreadyPlayed returns the recorded outcome, has loaded
\* no catalog and drawn nothing, and its step changes neither the inventory nor
\* any participant record.
ReplayHasNoEffect ==
    [][\A s \in Slots :
          (IsNull(resp[s]) /\ ~IsNull(resp'[s]) /\ Val(resp'[s]).alreadyPlayed)
          => /\ UNCHANGED <<customers, counts, distribution, metaobjects>>
             /\ snap[s] = EmptySnap /\ IsNull(chosen[s])
             /\ HasPlayed(phone[s])
             /\ Val(resp'[s]).prize = ReplayPrize(phone[s])]_vars

\* C4 witness: a spin has been answered alreadyPlayed with the recorded prize.
ReplayAnswered ==
    \E s \in Slots : GotAlreadyPlayed(s) /\ Val(resp[s]).prize = ReplayPrize(phone[s])

\* C5: the stored totalDistributed of every prize is the number of awards of
\* it that have been applied.
DistributedCountsAwards ==
    \A id \in KnownPrizes : TotalDistributed(id) = applied[id]

\* C6: the stored totalDistributed of every prize is non-negative and never
\* decreases.
DistributedNeverDecreases ==
    [][\A id \in KnownPrizes :
          TotalDistributed(id) >= 0 /\ TotalDistributed(id)' >= TotalDistributed(id)]_vars

\* C7: every capped prize's stored remaining lies between 0 and its cap.
RemainingWithinCap ==
    \A id \in KnownPrizes :
        Capped(id) => /\ ~IsNull(RawRemaining(id))
                      /\ 0 <= Val(RawRemaining(id))
                      /\ Val(RawRemaining(id)) <= Val(Cap(id))

\* C7 witness: more awards of a capped prize have been applied than its cap
\* allows (one was applied when its remaining was already 0) and the stored
\* remaining is 0.
AwardAtZeroWroteZero ==
    \E id \in KnownPrizes :
        Capped(id) /\ applied[id] > Val(Cap(id)) /\ RawRemaining(id) = Some(0)

\* C8: no weighted draw selects a capped prize whose stored remaining is 0.
DepletedNeverDrawn ==
    [][\A s \in Slots :
          (pc[s] = "draw" /\ ~IsNull(chosen'[s]) /\ Val(chosen'[s]).via = "weighted")
          => LET id == Val(chosen'[s]).prize.id
             IN ~(Capped(id) /\ StoredRemaining(id) = Some(0))]_vars

\* C9: a capped prize's stored remaining never rises, except that a reset
\* sets it to the cap.
RemainingOnlyDecreases ==
    [][\A id \in KnownPrizes :
          Capped(id)
          => \/ Val(RawRemaining(id)') <= Val(RawRemaining(id))
             \/ (\E s \in Slots : ResetWrites(s)) /\ RawRemaining(id)' = Cap(id)]_vars

\* C10: as long as no reset has run, the spins answered with a capped prize
\* after a weighted draw are at most its cap.
AwardsWithinCap ==
    ~resetRan => \A id \in KnownPrizes : Capped(id) => awarded[id] <= Val(Cap(id))

\* the handler of slot s holds a catalog snapshot with an uncapped prize
HasUncapped(s) ==
    /\ pc[s] \in {"draw", "writeCounts", "writeDist", "writeMeta", "writeTags", "writeNote"}
    /\ \E i \in 1..Len(Catalog(snap[s])) : IsNull(Catalog(snap[s])[i].max)

\* slot s is answered in this step
Answered(s) == IsNull(resp[s]) /\ ~IsNull(resp'[s])

\* C11: a spin whose catalog has an uncapped prize never takes the branch for
\* an empty available subset: its draw is a weighted draw of a prize with a
\* label, and unless a call to the platform fails it is answered that prize.
UncappedCatalogAlwaysAwards ==
    [][\A s \in Slots :
          (op[s] = "spin" /\ HasUncapped(s))
          => /\ (pc[s] = "draw" /\ pc'[s] # "draw")
                => /\ Len(Available(snap[s])) > 0
                   /\ Val(chosen'[s]).via = "weighted"
                   /\ Val(chosen'[s]).prize.label # ""
             /\ Answered(s)
                => \/ resp'[s] = Some(ServerError) /\ pc[s] \in Awaits
                   \/ /\ GotPrize(s)'
                      /\ Val(Val(resp'[s]).prize).label = Val(chosen[s]).prize.label
                      /\ Val(Val(resp'[s]).prize).label # ""]_vars

\* C11 witness: with every capped prize of the catalog given out, a spin has
\* been answered the uncapped prize.
UncappedAwardedWhenDepleted ==
    \E s \in Slots :
        /\ GotPrize(s)
        /\ Val(Val(resp[s]).prize).id = Some("better_luck")
        /\ ~Capped("better_luck")
        /\ \A id \in KnownPrizes : Capped(id) => StoredRemaining(id) = Some(0)

\* the last entry of the catalog the handler of slot s holds
LastEntry(s) == Catalog(snap[s])[Len(Catalog(snap[s]))]

\* slot s takes the step that writes the counters of the prize it drew
WritesCounters(s) ==
    /\ op[s] = "spin" /\ pc[s] \in {"writeDist", "writeMeta"}
    /\ pc'[s] = "writeTags"

\* C12: a draw from an empty available subset selects the last entry of the
\* catalog, and the counter write that follows stores that entry's
\* totalDistributed plus one and leaves its remaining at 0.
EmptySubsetSelectsLast ==
    [][\A s \in Slots :
          /\ (op[s] = "spin" /\ pc[s] = "draw" /\ pc'[s] # "draw"
                /\ Len(Available(snap[s])) = 0)
             => /\ Val(chosen'[s]).via = "fallback"
                /\ Val(chosen'[s]).prize = LastEntry(s)
          /\ (WritesCounters(s) /\ Val(chosen[s]).via = "fallback")
             => \A prize \in {Val(chosen[s]).prize} :
                   /\ TotalDistributed(prize.id)' = prize.totalDistributed + 1
                   /\ StoredRemaining(prize.id)' = Some(0)]_vars

\* the handler of slot s holds the catalog [A: weight 0.5, cap 1; B: weight
\* 0.5, no cap] as it is loaded after an award of A (A's remaining is 0)
ScenarioAfterAwardOfA(s) ==
    /\ impl = "metaobject"
    /\ Len(snap[s].prizes) = 2
    /\ LET A == snap[s].prizes[1]
           B == snap[s].prizes[2]
       IN /\ A.id = "kivo_easy_lite" /\ A.prob = Unit \div 2 /\ A.max = Some(1)
          /\ A.remaining = Some(0) /\ A.totalDistributed >= 1
          /\ B.id = "better_luck" /\ B.prob = Unit \div 2 /\ B.max = None

\* C13: in the scenario catalog, once A has been awarded the available subset
\* is B alone, the draw selects B for every random value, and the handler's
\* draw step chooses B.
ScenarioDrawSelectsB ==
    [][\A s \in Slots :
          (op[s] = "spin" /\ pc[s] = "draw" /\ ScenarioAfterAwardOfA(s))
          => LET av == Available(snap[s])
             IN /\ Len(av) = 1 /\ av[1].id = "better_luck"
                /\ \A r \in 0..(TotalProb(av) - 1) : WeightedPick(av, r).id = "better_luck"
                /\ pc'[s] # "draw"
                   => /\ Val(chosen'[s]).prize.id = "better_luck"
                      /\ Val(chosen'[s]).via = "weighted"]_vars

\* C13 witness: a draw made after the award of A has selected B.
ScenarioDrewB ==
    \E s \in Slots :
        /\ op[s] = "spin" /\ pc[s] = "writeMeta" /\ ScenarioAfterAwardOfA(s)
        /\ Val(chosen[s]).prize.id = "better_luck"
        /\ applied["kivo_easy_lite"] = 1

\* the catalog positions of the prizes the snapshot of slot s has available
AvailablePositions(s) ==
    {i \in 1..Len(Catalog(snap[s])) :
        IsNull(SnapRemaining(snap[s], Catalog(snap[s])[i]))
        \/ Val(SnapRemaining(snap[s], Catalog(snap[s])[i])) > 0}

\* the weights of the available prizes only, summed over the catalog
AvailableWeight(s) ==
    SumSeq([i \in 1..Len(Catalog(snap[s])) |->
               IF i \in AvailablePositions(s) THEN Catalog(snap[s])[i].prob ELSE 0])

\* the weight accumulated over the available prizes up to catalog position i
WeightUpTo(s, i) ==
    SumSeq([j \in 1..i |->
               IF j \in AvailablePositions(s) THEN Catalog(snap[s])[j].prob ELSE 0])

\* prize p is what the walk of 4.1 selects for r: the first available entry in
\* catalog order whose cumulative weight is >= r, the last available one if none
SelectedFor(s, p, r) ==
    LET reach == {i \in AvailablePositions(s) : WeightUpTo(s, i) >= r}
        pos   == IF reach # {} THEN CHOOSE i \in reach : \A j \in reach : i <= j
                 ELSE CHOOSE i \in AvailablePositions(s) :
                          \A j \in AvailablePositions(s) : j <= i
    IN p = Catalog(snap[s])[pos]

\* C14: with a non-empty available subset the total is the weight of the
\* available prizes only, every random value lies in [0, total), each of them
\* selects the first available entry whose cumulative weight is >= r, and the
\* prize the handler chooses is such a selection and is available.
WeightedDrawWalksAvailable ==
    [][\A s \in Slots :
          (op[s] = "spin" /\ pc[s] = "draw" /\ AvailablePositions(s) # {})
          => LET av == Available(snap[s])
             IN /\ TotalProb(av) = AvailableWeight(s)
                /\ \A r \in RandomPoints(av) :
                      /\ 0 <= r /\ (r < AvailableWeight(s) \/ r = 0)
                      /\ SelectedFor(s, WeightedPick(av, r), r)
                /\ pc'[s] # "draw"
                   => /\ Val(chosen'[s]).via = "weighted"
                      /\ \E i \in AvailablePositions(s) :
                             Val(chosen'[s]).prize = Catalog(snap[s])[i]
                      /\ \E r \in RandomPoints(av) :
                             SelectedFor(s, Val(chosen'[s]).prize, r)]_vars

\* C14 witness: a weighted draw has walked past the first catalog entry and
\* selected a later one.
WalkSelectedLaterEntry ==
    \E s \in Slots :
        /\ op[s] = "spin" /\ pc[s] \in {"writeCounts", "writeDist", "writeMeta"}
        /\ Val(chosen[s]).via = "weighted"
        /\ Val(chosen[s]).prize.id # Catalog(snap[s])[1].id

\* C15: an award is applied to the values the handler loaded: the counter
\* write stores the loaded totalDistributed plus one for a capped and for an
\* uncapped prize alike; for a capped prize the stored remaining becomes
\* max(0, loaded remaining - 1); for an uncapped prize no remaining is written
\* and it stays absent.
AwardAppliedToSnapshot ==
    [][\A s \in Slots :
          /\ (op[s] = "spin" /\ impl = "metaobject" /\ WritesCounters(s))
             => \A prize \in {Val(chosen[s]).prize} :
                   /\ TotalDistributed(prize.id)' = prize.totalDistributed + 1
                   /\ IF IsNull(prize.max)
                      THEN /\ RawRemaining(prize.id)' = RawRemaining(prize.id)
                           /\ IsNull(StoredRemaining(prize.id)')
                      ELSE RawRemaining(prize.id)' = Some(Max(0, Val(prize.remaining) - 1))
          /\ (op[s] = "spin" /\ impl = "metafield" /\ pc[s] = "draw" /\ pc'[s] # "draw")
             => LET id     == Val(chosen'[s]).prize.id
                    loaded == Val(snap[s].counts)[id]
                IN IF IsNull(loaded)
                   THEN snap'[s].counts = snap[s].counts /\ pc'[s] = "writeDist"
                   ELSE /\ Val(snap'[s].counts)[id] = Some(Max(0, Val(loaded) - 1))
                        /\ pc'[s] = "writeCounts"
          /\ (op[s] = "spin" /\ pc[s] = "writeCounts" /\ pc'[s] = "writeDist")
             => \A id \in {Val(chosen[s]).prize.id} :
                   /\ counts'[id] = Val(snap[s].counts)[id]
                   /\ distribution' = distribution
          /\ (op[s] = "spin" /\ impl = "metafield" /\ WritesCounters(s))
             => \A id \in {Val(chosen[s]).prize.id} :
                   /\ TotalDistributed(id)' = Val(snap[s].dist)[id] + 1
                   /\ counts' = counts]_vars

\* C15 witness: one award of a capped prize and one of an uncapped prize have
\* been applied: both counters stand at 1, the capped prize's remaining went
\* from its cap of 1 to 0 and the uncapped prize's remaining is absent.
CappedAndUncappedAwardApplied ==
    \E a, b \in KnownPrizes :
        /\ Capped(a) /\ ~Capped(b)
        /\ applied[a] = 1 /\ TotalDistributed(a) = 1 /\ StoredRemaining(a) = Some(0)
        /\ applied[b] = 1 /\ TotalDistributed(b) = 1 /\ IsNull(StoredRemaining(b))
        /\ \A s \in Slots : pc[s] \in {"idle", "done"}

\* every prize's remaining, as a load reads it, is its cap
AllReset == \A id \in KnownPrizes : StoredRemaining(id) = Cap(id)

\* only the first handler slot has been used: the requests so far were served
\* one after the other
SequentialRun == pc["h2"] = "idle" /\ op["h2"] = "none"

\* C16: a reset that runs on an inventory that is already reset changes no
\* prize's remaining and no prize's totalDistributed, as the stats read them:
\* a second reset in a row leaves what the first one left.
ResetIsIdempotent ==
    [][\A s \in Slots :
          (ResetWrites(s) /\ AllReset)
          => \A id \in KnownPrizes :
                 /\ StoredRemaining(id)' = StoredRemaining(id)
                 /\ TotalDistributed(id)' = TotalDistributed(id)]_vars

\* C16 witness: two resets have been served one after the other, both answered
\* with success, and the inventory is as a single reset leaves it.
ResetTwiceInARow ==
    /\ resets = 2 /\ started = 2 /\ SequentialRun
    /\ pc["h1"] = "done" /\ resp["h1"] = Some(ResetResponse)
    /\ AllReset

\* C17: every write of a reset sets the remaining of the prizes it writes to
\* their cap, or to the unbounded sentinel that loads as absent, and changes no
\* totalDistributed and no customer; a reset served on its own has every
\* prize's remaining at its cap when it answers.
ResetRestoresCaps ==
    [][\A s \in Slots :
          ResetWrites(s)
          => /\ \A id \in KnownPrizes : TotalDistributed(id)' = TotalDistributed(id)
             /\ customers' = customers
             /\ impl = "metafield"
                => \A id \in KnownPrizes : counts'[id] = PrizeById(id).max
             /\ impl = "metaobject"
                => \A written \in {snap[s].prizes[ri[s]].id} :
                      /\ RawRemaining(written)' =
                            Some(IF Capped(written) THEN Val(Cap(written)) ELSE -1)
                      /\ StoredRemaining(written)' = Cap(written)
                      /\ \A id \in KnownPrizes \ {written} :
                             RawRemaining(id)' = RawRemaining(id)
             /\ (SequentialRun /\ resp'[s] = Some(ResetResponse)) => AllReset']_vars

\* C17 witness: after a spin was awarded, a reset has been answered; every
\* prize is back at its cap, the award is still counted and still marked.
ResetKeptTotalsAndMarkers ==
    /\ resets = 1 /\ SequentialRun /\ resp["h1"] = Some(ResetResponse)
    /\ AllReset
    /\ \E ph \in Phones : wins[ph] = 1 /\ HasPlayed(ph)
    /\ \E id \in KnownPrizes : applied[id] >= 1 /\ TotalDistributed(id) = applied[id]

\* C18: after a first-time spin has been answered its prize, the marker holds
\* that prize's label and sequence number: a replay for the same identity
\* returns the label and the number of the first response.
MarkerReplaysFirstResponse ==
    \A s \in Slots :
        (op[s] = "spin" /\ GotPrize(s))
        => /\ HasPlayed(phone[s])
           /\ Val(ReplayPrize(phone[s])).label = Val(Val(resp[s]).prize).label
           /\ ~IsNull(Val(ReplayPrize(phone[s])).number)
           /\ Val(Val(ReplayPrize(phone[s])).number).n = Val(Val(Val(resp[s]).prize).number).n

\* the handler of slot s takes this step
Moved(s) == pc'[s] # pc[s] \/ ri'[s] # ri[s]

\* the handler of slot s holds a loaded catalog
CatalogLoaded(s) ==
    IF UsesMetafields THEN ~IsNull(snap[s].counts) /\ ~IsNull(snap[s].dist)
    ELSE Len(snap[s].prizes) > 0

\* C19: the steps of one spin come in the order participation check, catalog
\* load, draw, counters write, marker write, response: a handler loads the
\* catalog only when it holds a customer without the marker, draws only from a
\* loaded catalog, writes counters only for a prize it drew, writes the marker
\* only after its counters write returned a sequence number, and answers a
\* prize only after its marker write, with the marker in the store.
SpinStepsInOrder ==
    [][\A s \in Slots :
          (op[s] = "spin" /\ Moved(s))
          => /\ (snap'[s] # snap[s] /\ snap[s] = EmptySnap)
                => ~IsNull(customer[s]) /\ ~hasPlayedWheel(Val(customer[s]))
             /\ (IsNull(chosen[s]) /\ ~IsNull(chosen'[s]))
                => CatalogLoaded(s) /\ ~IsNull(customer[s])
             /\ (<<counts, distribution, metaobjects>>' # <<counts, distribution, metaobjects>>)
                => ~IsNull(chosen[s]) /\ CatalogLoaded(s)
             /\ (prizeNumber'[s] # prizeNumber[s] /\ IsNull(resp'[s]))
                => /\ prizeNumber[s] = 0 /\ prizeNumber'[s] >= 1
                   /\ ~IsNull(chosen[s])
                   /\ customers' = customers
             /\ (customers' # customers /\ ~IsNull(customers[phone[s]]))
                => /\ prizeNumber[s] >= 1 /\ ~IsNull(chosen[s])
                   /\ <<counts, distribution, metaobjects>>' = <<counts, distribution, metaobjects>>
             /\ (Answered(s) /\ GotPrize(s)')
                => /\ pc[s] = "writeNote"
                   /\ prizeNumber[s] >= 1
                   /\ HasPlayed(phone[s])
                   /\ Val(Val(resp'[s]).prize).label = Val(chosen[s]).prize.label]_vars

\* C19 witness: a spin has been answered a prize; its marker and its counter
\* write are in the store.
SpinAnsweredAfterAllWrites ==
    \E s \in Slots :
        /\ op[s] = "spin" /\ GotPrize(s) /\ HasPlayed(phone[s])
        /\ Val(ReplayPrize(phone[s])).label = Val(Val(resp[s]).prize).label
        /\ \E id \in KnownPrizes :
               /\ Val(Val(resp[s]).prize).id = Some(id)
               /\ TotalDistributed(id) = Val(Val(Val(resp[s]).prize).number).n

\* the counter writes that recorded an award, over all prizes
SumApplied == SumSeq([i \in 1..Len(PRIZES) |-> applied[PRIZES[i].id]])

\* C20: when the marker write of a spin fails, its counters write has already
\* succeeded and stays in the store, the customer is not marked by the step,
\* the spin is answered a server error; and a later spin for an identity left
\* unmarked this way passes the gate and goes on to draw again.
MarkerFailureKeepsAward ==
    [][\A s \in Slots :
          /\ (op[s] = "spin" /\ pc[s] = "writeTags" /\ Answered(s)
                /\ Val(resp'[s]).status = 500)
             => /\ prizeNumber[s] >= 1
                /\ applied[Val(chosen[s]).prize.id] >= 1
                /\ UNCHANGED <<customers, counts, distribution, metaobjects>>
                /\ HasPlayed(phone[s])' = HasPlayed(phone[s])
                /\ resp'[s] = Some(ServerError)
                /\ pc'[s] = "done"
          /\ (op[s] = "spin" /\ pc[s] = "lookup" /\ Moved(s)
                /\ unmarked[phone[s]] >= 1 /\ ~HasPlayed(phone[s])
                /\ resp'[s] # Some(ServerError))
             => /\ IsNull(resp'[s])
                /\ pc'[s] \in {AfterGate, "create"}]_vars

\* C20 witness: served one after the other, a spin whose marker write failed
\* and its retry: the retry was awarded, and two awards are in the counters
\* for the one prize the identity was told about.
RetryAwardedAgain ==
    \E ph \in Phones :
        /\ impl = "metafield" /\ SequentialRun /\ started = 2
        /\ unmarked[ph] = 1 /\ wins[ph] = 1 /\ HasPlayed(ph)
        /\ GotPrize("h1") /\ phone["h1"] = ph
        /\ SumApplied = 2
        /\ SumSeq([i \in 1..Len(PRIZES) |-> distribution[PRIZES[i].id]]) = 2

\* a request of the given endpoint is taken up by slot s in this step
Arrives(s, endpoint) == started' = started + 1 /\ Free(s) /\ op'[s] = endpoint

\* the step changes nothing the platform stores
NoStoreAccess == UNCHANGED <<storeVars, histVars>>

\* C21: a spin whose identity is missing, empty or only whitespace is answered
\* the validation error in the step it arrives in, before any call to the
\* platform: it never waits on a call and nothing stored changes.
BlankIdentityRejected ==
    [][\A s \in Slots :
          /\ (Arrives(s, "spin") /\ phone'[s] \notin Phones)
             => /\ phone'[s] = ""
                /\ pc'[s] = "done"
                /\ resp'[s] = Some(ValidationError)
                /\ NoStoreAccess
          /\ (op'[s] = "spin" /\ pc'[s] \in Awaits \cup {"draw"})
             => phone'[s] \in Phones]_vars

\* a spin with a blank identity was answered the validation error
BlankIdentityAnswered ==
    \E s \in Slots :
        /\ op[s] = "spin" /\ phone[s] = "" /\ pc[s] = "done"
        /\ resp[s] = Some(ValidationError)

\* C22: a reset or a stats request whose adminKey is not the configured secret
\* is answered Unauthorized in the step it arrives in, before any state is read
\* or written: only a request with the right key ever waits on a call.
WrongKeyRejected ==
    [][\A s \in Slots :
          /\ ((Arrives(s, "reset") \/ Arrives(s, "stats")) /\ adminKey'[s] # ADMIN_RESET_KEY)
             => /\ pc'[s] = "done"
                /\ resp'[s] = Some(Unauthorized)
                /\ NoStoreAccess
          /\ (op'[s] \in {"reset", "stats"} /\ pc'[s] \in Awaits)
             => adminKey'[s] = ADMIN_RESET_KEY]_vars

\* a reset with a wrong key was answered Unauthorized while a prize given out
\* earlier was still missing from the inventory
WrongKeyResetAnswered ==
    \E s \in Slots :
        /\ op[s] = "reset" /\ pc[s] = "done"
        /\ adminKey[s] = Some("wrong")
        /\ resp[s] = Some(Unauthorized)
        /\ ~AllReset /\ ~resetRan

\* C23: getParticipant changes nothing: neither its arrival nor its answer
\* writes to the platform, it creates no customer, and it answers found = false
\* exactly when the platform knows no customer for the identity.
ParticipantIsReadOnly ==
    [][\A s \in Slots :
          /\ (Arrives(s, "participant") \/ (op[s] = "participant" /\ Moved(s)))
             => NoStoreAccess
          /\ (op[s] = "participant" /\ pc[s] = "participantLookup" /\ pc'[s] = "done")
             => \/ resp'[s] = Some(ServerError)
                \/ /\ Val(resp'[s]).status = 200
                   /\ Val(resp'[s]).found = Some(~IsNull(customers[phone[s]]))
                   /\ IsNull(customers[phone[s]])
                      => /\ IsNull(Val(resp'[s]).hasPlayed)
                         /\ IsNull(Val(resp'[s]).prize)
                   /\ ~IsNull(customers[phone[s]])
                      => /\ Val(resp'[s]).hasPlayed = Some(HasPlayed(phone[s]))
                         /\ Val(resp'[s]).prize = getPrizeFromTags(Val(customers[phone[s]]))]_vars

\* getParticipant for an identity the platform does not know was answered
\* found = false, and the identity is still unknown
UnknownParticipantNotFound ==
    \E s \in Slots :
        /\ op[s] = "participant" /\ pc[s] = "done"
        /\ Val(resp[s]).found = Some(FALSE)
        /\ IsNull(customers[phone[s]])

\* the positions of the stored entries that have both an id and a label, and
\* the place of such an entry among them
ValidPositions ==
    {i \in 1..Len(metaobjects) :
        ~IsNull(metaobjects[i].prize_id) /\ ~IsNull(metaobjects[i].prize_label)}
Rank(i) == Cardinality({j \in ValidPositions : j <= i})

\* the steps of a spin that come after its catalog load
AfterLoad == {"draw", "writeCounts", "writeDist", "writeMeta", "writeTags", "writeNote"}

\* C24: a spin whose catalog load finds no entry, or no entry with both an id
\* and a label, is answered a server error by that load: it does not load
\* again and writes no counter and no marker.  Otherwise the entries without
\* an id or a label are skipped and the others are loaded in their order.
CatalogLoadSkipsOrFails ==
    [][\A s \in Slots :
          /\ (op[s] = "spin" /\ pc[s] = "load" /\ Moved(s))
             => \/ /\ pc'[s] = "done"
                   /\ resp'[s] = Some(ServerError)
                   /\ NoStoreAccess
                \/ /\ ValidPositions # {}
                   /\ pc'[s] = "draw"
                   /\ NoStoreAccess
                   /\ Len(snap'[s].prizes) = Cardinality(ValidPositions)
                   /\ \A i \in ValidPositions :
                         /\ snap'[s].prizes[Rank(i)].metaobjectId = metaobjects[i].id
                         /\ snap'[s].prizes[Rank(i)].id = Val(metaobjects[i].prize_id)
                         /\ snap'[s].prizes[Rank(i)].label = Val(metaobjects[i].prize_label)
          /\ (op'[s] = "spin" /\ pc'[s] \in AfterLoad)
             => Len(snap'[s].prizes) > 0]_vars

\* a spin for a new identity got as far as the load of a catalog that has
\* entries, none with both an id and a label, and was answered a server error
\* with no counter and no marker written
NoValidEntryAnswered ==
    \E s \in Slots :
        /\ Len(metaobjects) > 0 /\ ValidPositions = {}
        /\ op[s] = "spin" /\ pc[s] = "done" /\ phone[s] = "p1"
        /\ resp[s] = Some(ServerError)
        /\ ~IsNull(customers["p1"]) /\ ~HasPlayed("p1")
        /\ \A id \in PrizeIds : applied[id] = 0

\* a field's text is a number
Numeric(str) == ~IsNull(str) /\ Val(str) # NaN

\* C27: every prize a catalog load produces has a weight in [0, 1], has a
\* remaining exactly when it has a cap, and with a cap has 0 <= remaining <= cap:
\* a stored remaining above the cap is lowered to the cap, and a missing or
\* invalid stored remaining becomes the cap.
LoadedPrizeIsWellFormed ==
    [][\A s \in Slots :
          (op[s] = "spin" /\ pc[s] = "load" /\ pc'[s] = "draw")
          => \A k \in 1..Len(snap'[s].prizes) :
                \A i \in 1..Len(metaobjects) :
                   metaobjects[i].id = snap'[s].prizes[k].metaobjectId
                   => LET prize  == snap'[s].prizes[k]
                          stored == metaobjects[i].remaining_count
                      IN /\ 0 <= prize.prob /\ prize.prob <= Unit
                         /\ IsNull(prize.remaining) <=> IsNull(prize.max)
                         /\ ~IsNull(prize.max)
                            => /\ 0 <= Val(prize.remaining)
                               /\ Val(prize.remaining) <= Val(prize.max)
                               /\ (Numeric(stored) /\ Val(stored) > Val(prize.max))
                                  => prize.remaining = prize.max
                               /\ (~Numeric(stored) \/ Val(stored) < 0)
                                  => prize.remaining = prize.max
                               /\ (Numeric(stored) /\ 0 <= Val(stored)
                                   /\ Val(stored) <= Val(prize.max))
                                  => prize.remaining = stored]_vars

\* a spin holds a prize loaded with remaining 2 from an entry whose cap is 2
\* and whose stored remaining is 3
RemainingLoweredToCap ==
    \E s \in Slots :
        /\ op[s] = "spin" /\ pc[s] = "draw"
        /\ Len(snap[s].prizes) = 1
        /\ metaobjects[1].remaining_count = Some(3)
        /\ snap[s].prizes[1].max = Some(2)
        /\ snap[s].prizes[1].remaining = Some(2)

\* C28: a prize loaded from an entry whose probability is missing, non-numeric
\* or negative has the weight 0.01, i.e. 1%.
DefaultWeightIsOnePercent ==
    \A s \in Slots :
        (op[s] = "spin" /\ pc[s] = "draw")
        => \A k \in 1..Len(snap[s].prizes) :
              \A i \in 1..Len(metaobjects) :
                 (/\ metaobjects[i].id = snap[s].prizes[k].metaobjectId
                  /\ (~Numeric(metaobjects[i].probability) \/ Val(metaobjects[i].probability) < 0))
                 => snap[s].prizes[k].prob = Unit \div 100

\* the remaining_count a reset stores for a prize of its snapshot
ResetValue(prize) == Some(IF IsNull(prize.max) THEN -1 ELSE Val(prize.max))

\* C29: a reset answers success only in the step that writes the last prize of
\* its snapshot, having written every prize before it, one per step and in
\* order, each to its cap.  When a write fails the reset answers a server
\* error, writes no further prize, and the prizes written so far stay as
\* written.
ResetSucceedsAfterEveryWrite ==
    [][\A s \in Slots :
          /\ (op[s] = "reset" /\ pc[s] = "resetLoad" /\ pc'[s] = "resetWriteOne")
             => ri'[s] = 1
          /\ (op[s] = "reset" /\ pc[s] = "resetWriteOne" /\ Moved(s))
             => \/ /\ resp'[s] = Some(ServerError)
                   /\ pc'[s] = "done"
                   /\ NoStoreAccess
                \/ /\ \A i \in 1..Len(metaobjects) :
                         IF metaobjects[i].id = snap[s].prizes[ri[s]].metaobjectId
                         THEN metaobjects'[i].remaining_count = ResetValue(snap[s].prizes[ri[s]])
                         ELSE metaobjects'[i] = metaobjects[i]
                   /\ IF ri[s] < Len(snap[s].prizes)
                      THEN ri'[s] = ri[s] + 1 /\ pc'[s] = pc[s] /\ IsNull(resp'[s])
                      ELSE resp'[s] = Some(ResetResponse) /\ pc'[s] = "done"
          /\ (op[s] = "reset" /\ pc[s] # "done" /\ pc'[s] = "done"
              /\ resp'[s] = Some(ResetResponse))
             => IF impl = "metafield"
                THEN pc[s] = "resetWrite" /\ \A id \in PrizeIds : counts'[id] = PrizeById(id).max
                ELSE pc[s] = "resetWriteOne" /\ ri[s] = Len(snap[s].prizes)]_vars

\* a reset of the metaobject variant was answered a server error after it had
\* written one prize back to its cap and before it wrote another, which is
\* still depleted
ResetFailedHalfWay ==
    \E s \in Slots :
        /\ impl = "metaobject" /\ started = 1
        /\ op[s] = "reset" /\ pc[s] = "done"
        /\ resp[s] = Some(ServerError)
        /\ resetRan /\ resets = 0
        /\ \E a, b \in KnownPrizes :
              /\ Capped(a) /\ StoredRemaining(a) = Cap(a)
              /\ Capped(b) /\ StoredRemaining(b) = Some(0) /\ Cap(b) # Some(0)

\* C25: no step of the mirror sync, its failure included, fails the primary
\* operation or touches what the primary wrote: a spin has been answered its
\* prize when the sync starts and the answer stands, a reset that awaited the
\* sync answers success however the sync ends, and the counters, the
\* distribution and the customers are as they were before the step.
SyncFailureKeepsPrimary ==
    [][\A s \in Slots :
          /\ (pc[s] \in SyncAwaits /\ Moved(s))
             => /\ UNCHANGED <<customers, counts, distribution>>
                /\ op[s] = "spin" => resp'[s] = resp[s]
                /\ (op[s] = "reset" /\ pc'[s] = "done") => resp'[s] = Some(ResetResponse)
                /\ (op[s] = "reset" /\ pc'[s] # "done") => IsNull(resp'[s])
          /\ (op'[s] = "spin" /\ pc'[s] \in SyncAwaits)
             => /\ GotPrize(s)'
                /\ HasPlayed(phone[s])'
          /\ (op'[s] = "reset" /\ pc'[s] \in SyncAwaits)
             => \A id \in PrizeIds : Val(snap'[s].counts)[id] = PrizeById(id).max]_vars

\* a spin was answered its prize and the customer carries the marker, while
\* the sync that followed failed: the mirror is still empty
SpinAnsweredSyncFailed ==
    \E s \in Slots :
        /\ impl = "mirror" /\ metaobjects = <<>>
        /\ op[s] = "spin" /\ pc[s] = "done"
        /\ GotPrize(s) /\ HasPlayed(phone[s])
        /\ \E id \in PrizeIds : distribution[id] = 1

\* the place of an await in the spin handler's code
SpinRank(p) ==
    CASE p = "lookup"      -> 1
      [] p = "create"      -> 2
      [] p = "loadCounts"  -> 3
      [] p = "loadDist"    -> 4
      [] p = "load"        -> 5
      [] p = "draw"        -> 6
      [] p = "writeCounts" -> 7
      [] p = "writeDist"   -> 8
      [] p = "writeMeta"   -> 9
      [] p = "writeTags"   -> 10
      [] p = "writeNote"   -> 11
      [] OTHER             -> 12

\* the step of slot s ends in the handler's catch
Failed(s) == pc'[s] = "done" /\ resp'[s] = Some(ServerError)

\* C26: a spin request goes through its steps at most once each and forward
\* only, so it draws once and repeats no call, a failed one included.  Its
\* draw changes one prize's remaining in its snapshot at most; its counter
\* writes store that snapshot with one prize's totalDistributed one higher, or
\* change one metaobject; only its marker write changes its customer's tags;
\* no other step of it writes to the inventory.
SpinAwardsAtMostOnce ==
    [][\A s \in Slots :
          (op[s] = "spin" /\ pc[s] \notin {"idle", "done"} /\ Moved(s))
          => /\ SpinRank(pc'[s]) > SpinRank(pc[s])
             /\ Failed(s) => UNCHANGED <<storeVars, applied, awarded, wins>>
             /\ pc[s] \notin {"writeCounts", "writeDist", "writeMeta"}
                => UNCHANGED <<counts, distribution, metaobjects, applied>>
             /\ pc[s] \notin {"create", "writeTags", "writeNote"} => UNCHANGED customers
             /\ pc[s] = "draw"
                => /\ ~IsNull(chosen'[s])
                   /\ UsesMetafields
                      => Cardinality({id \in PrizeIds :
                            Val(snap'[s].counts)[id] # Val(snap[s].counts)[id]}) <= 1
             /\ (pc[s] = "writeCounts" /\ ~Failed(s))
                => /\ counts' = Val(snap[s].counts)
                   /\ UNCHANGED <<distribution, applied>>
             /\ (pc[s] = "writeDist" /\ ~Failed(s))
                => /\ \A id \in PrizeIds :
                         distribution'[id] = Val(snap[s].dist)[id]
                                             + (IF id = Val(chosen[s]).prize.id THEN 1 ELSE 0)
                   /\ UNCHANGED counts
             /\ (pc[s] = "writeMeta" /\ ~Failed(s))
                => /\ Len(metaobjects') = Len(metaobjects)
                   /\ \A i \in 1..Len(metaobjects) :
                         metaobjects'[i] # metaobjects[i]
                         => metaobjects[i].id = Val(chosen[s]).prize.metaobjectId
             /\ (pc[s] \in {"writeCounts", "writeDist", "writeMeta"} /\ ~Failed(s))
                => SumApplied' <= SumApplied + 1
             /\ \A ph \in Phones :
                   (customers'[ph] # customers[ph] /\ pc[s] # "create")
                   => /\ ph = phone[s]
                      /\ pc[s] = "writeTags" <=> Val(customers'[ph]).tags # Val(customers[ph]).tags]_vars

\* one spin, served alone by the metafield variant, was answered a capped
\* prize: one prize's remaining is one lower, one prize's totalDistributed is
\* one higher, and one customer carries a marker
OneSpinOneAward ==
    \E s \in Slots :
        /\ impl = "metafield" /\ started = 1
        /\ op[s] = "spin" /\ pc[s] = "done" /\ GotPrize(s)
        /\ Cardinality({id \in PrizeIds : counts[id] # InitialCounts[id]}) = 1
        /\ Cardinality({id \in PrizeIds : distribution[id] = 1}) = 1
        /\ Cardinality({id \in PrizeIds : distribution[id] = 0}) = Cardinality(PrizeIds) - 1
        /\ Cardinality({ph \in Phones : HasPlayed(ph)}) = 1

\* the response of slot s is one of those a spin sends
SpinResponse(s) ==
    \/ GotPrize(s)
    \/ GotAlreadyPlayed(s)
    \/ resp[s] = Some(ValidationError)
    \/ resp[s] = Some(ServerError)

\* C30: when every call to the platform eventually returns or fails, every
\* spin is answered, and answered once: no response is sent while the handler
\* runs, the handler ends with a prize, alreadyPlayed, a validation error or a
\* server error, and the response it sent is not replaced.
SpinAnswersExactlyOnce ==
    /\ [][\A s \in Slots :
             /\ op'[s] = "spin"
                => /\ pc'[s] = "done" <=> ~IsNull(resp'[s])
                   /\ pc'[s] = "done" => SpinResponse(s)'
             /\ (op[s] = "spin" /\ pc[s] = "done" /\ started' = started)
                => (pc'[s] = "done" /\ resp'[s] = resp[s])]_vars
    /\ \A s \in Slots :
          (op[s] = "spin" /\ pc[s] # "done") ~> (op[s] = "spin" /\ pc[s] = "done")

\* two spins ran side by side to their ends: one was answered a prize, the
\* other a server error
TwoSpinsBothAnswered ==
    \E s, t \in Slots :
        /\ s # t
        /\ op[s] = "spin" /\ pc[s] = "done" /\ GotPrize(s)
        /\ op[t] = "spin" /\ pc[t] = "done" /\ resp[t] = Some(ServerError)

\* the catalog the metaobject variant started on: no handler changes a prize_id
InitialCatalog ==
    CHOOSE cat \in Catalogs :
        /\ Len(cat) = Len(metaobjects)
        /\ \A i \in 1..Len(cat) : cat[i].prize_id = metaobjects[i].prize_id

\* one request has been served, a spin, and it has ended
OneSpinServed ==
    /\ started = 1
    /\ \E s \in Slots : op[s] = "spin" /\ pc[s] = "done"

\* C31: after a spin, answered a prize or a server error, a capped prize that
\* had stock has its remaining lowered exactly when its totalDistributed is
\* raised: the two halves of an award are in the store together or not at all.
\* Stated for a spin served alone on the initial inventory.
AwardAppliedTogether ==
    OneSpinServed
    => IF impl = "metafield"
       THEN \A id \in PrizeIds :
               ~IsNull(InitialCounts[id])
               => (counts[id] # InitialCounts[id] <=> distribution[id] # InitialDistribution[id])
       ELSE \A i \in 1..Len(metaobjects) :
               (/\ ~IsNull(ParseCount(InitialCatalog[i].max_count))
                /\ InitialCatalog[i].remaining_count # Some(0))
               => (metaobjects[i].remaining_count # InitialCatalog[i].remaining_count
                   <=> metaobjects[i].total_distributed # InitialCatalog[i].total_distributed)

\* C32: two spins that were each answered a freshly drawn prize, the same
\* prize, were answered different prize numbers.
PrizeNumbersAreUnique ==
    \A s, t \in Slots :
        (/\ s # t
         /\ op[s] = "spin" /\ pc[s] = "done" /\ GotPrize(s)
         /\ op[t] = "spin" /\ pc[t] = "done" /\ GotPrize(t)
         /\ Val(Val(resp[s]).prize).label = Val(Val(resp[t]).prize).label)
        => Val(Val(resp[s]).prize).number # Val(Val(resp[t]).prize).number

\* no request is being served
Quiescent == \A s \in Slots : pc[s] \in {"idle", "done"}

\* C33: in a sequential, failure-free run of spins and resets that starts on a
\* full inventory, after each request every capped prize's remaining is its
\* cap minus the awards of it since the last reset, and 0 where that would be
\* negative.
RemainingIsCapMinusAwards ==
    Quiescent
    => \A id \in KnownPrizes :
          Capped(id) => StoredRemaining(id) = Some(Max(0, Val(Cap(id)) - sinceReset[id]))

\* C33 witness: a prize has been awarded more often than its cap since the run
\* began (the second time as the fallback), and its remaining stands at 0
AwardedBeyondCap ==
    /\ Quiescent
    /\ \E id \in KnownPrizes :
          Capped(id) /\ sinceReset[id] > Val(Cap(id)) /\ StoredRemaining(id) = Some(0)

\* C34: a spin for an identity that has not played and that is answered a
\* server error leaves the identity not marked as played.
FailedSpinLeavesUnplayed ==
    [][\A s \in Slots : \A ph \in Phones :
          (/\ SequentialRun
           /\ op[s] = "spin" /\ phone[s] = ph /\ wins[ph] = 0
           /\ Failed(s) /\ pc[s] # "done")
          => ~HasPlayed(ph)']_vars

\* C35: once a reset has been answered with success, and no call has failed,
\* every capped prize's stored remaining is at least its cap minus the awards
\* of it applied since the reset wrote it: a spin that loaded its catalog
\* before the reset does not take the reset value back.
ResetValueSurvivesStaleSpin ==
    (Quiescent /\ resets >= 1)
    => \A id \in KnownPrizes :
          Capped(id) => Val(StoredRemaining(id)) >= Val(Cap(id)) - sinceReset[id]

\* C36: on the mirroring server, when no call fails and only spins have been
\* served, once every spin and every sync has ended each mirror metaobject
\* holds the remaining and the totalDistributed that the primary store holds
\* for its prize.
MirrorMatchesPrimary ==
    (Quiescent /\ ~resetRan)
    => \A i \in DOMAIN metaobjects :
          \A id \in PrizeIds :
             metaobjects[i].prize_id = Some(id)
             => /\ metaobjects[i].remaining_count
                      = Some(IF IsNull(counts[id]) THEN -1 ELSE Val(counts[id]))
                /\ metaobjects[i].total_distributed = Some(distribution[id])

====
